---- MODULE Spec2Model ----
(***************************************************************************)
(* The tool-calling orchestration loop of backend/app/main.py: the         *)
(* websocket handler, the session store session_data, the seven tool       *)
(* wrappers of FUNCTION_MAP and the provider functions of custom_tools.py  *)
(* they call.                                                              *)
(*                                                                         *)
(* A websocket is identified with its session id str(id(websocket)).       *)
(* Offers are opaque to the core and are modelled by their identifiers.    *)
(* The intents of an LLM response are numbered 1..tool_calls; the content  *)
(* of intent k is drawn when the loop reaches it, the loop being the only  *)
(* reader of it.                                                           *)
(***************************************************************************)
EXTENDS Integers, Sequences, FiniteSets, TLC

VARIABLES
    search_dates,        \* custom_tools.py:31-46  today and the dates of a flight search
    AVAILABLE_FUNCTIONS, \* main.py:101 the tool catalogue, a module-level list
    session_data,        \* main.py:37   dict session id -> session
    active_connections,  \* main.py:432  list of connected websockets
    pc,                  \* position of each websocket's handler
    tool_calls,          \* number of intents of the first response of the turn
    idx,                 \* position of the for loop of main.py:540
    follow_up_messages,  \* tool-role messages appended so far (main.py:558,567)
    call,                \* the tool call being executed / executed last
    response,            \* content of the response the turn will send
    priced_ok,           \* history: a price_flight_offer call succeeded in this session
    replay,              \* history: the running call repeats the previous one
    chat_request,        \* main.py:501-507  model and temperature of the chat request
    assistant_content,   \* main.py:533  content of the assistant message of the round
    data_json,           \* main.py:460  the "messages" of the inbound frame of the turn
    messages,            \* main.py:465-499  the messages of the chat request of the turn
    llm_calls,           \* history: calls of generate_chat_response made in the turn
    sent,                \* history: the last frame sent on the websocket
    released             \* history: what the cleanup of the ended handler found

\* The locals of a turn and the histories added to them.
turn_vars == <<data_json, messages, llm_calls, sent, released, chat_request>>

vars == <<search_dates, AVAILABLE_FUNCTIONS, session_data, active_connections, pc, tool_calls, idx,
          follow_up_messages, assistant_content, call, response, priced_ok,
          replay, turn_vars>>

----------------------------------------------------------------------------
(* Bounds *)

MaxLen == 2
MaxCalls == 2
MaxMsgs == 3

Websockets == {"ws1"}

Offers == 1..MaxLen
NoOffer == 0

\* Lists a provider search can answer with.  Flights: the empty list, the
\* runs <<1, ..., hi>> of offer identifiers and the one-offer list <<MaxLen>>;
\* hotels and rental cars: the empty list and the full run.
Window(lo, hi) == [k \in 1..(hi - lo + 1) |-> lo + k - 1]
FlightLists == {Window(1, hi) : hi \in 0..MaxLen} \cup {Window(MaxLen, MaxLen)}
OtherLists == {<<>>, Window(1, MaxLen)}
ProviderLists(name) == IF name = "search_flights" THEN FlightLists ELSE OtherLists

Ordinals == 0..(MaxLen + 1)

----------------------------------------------------------------------------
(* Values *)

None == [priced |-> FALSE, id |-> NoOffer]
PricedOffer(o) == [priced |-> TRUE, id |-> o]

\* A handler's return value (function_response), or the exception it raised.
NoResult == [kind |-> "none", text |-> "", length |-> 0, data |-> <<>>]
ErrorPayload(text, n) == [kind |-> "error", text |-> text, length |-> n, data |-> <<>>]
OfferList(d) == [kind |-> "offers", text |-> "", length |-> 0, data |-> d]
PricingResponse(p) == [kind |-> "priced", text |-> "", length |-> 0, data |-> <<p>>]
Confirmation(text, o) == [kind |-> "booked", text |-> text, length |-> 0, data |-> <<o>>]
Exception(text) == [kind |-> "exception", text |-> text, length |-> 0, data |-> <<>>]

\* isinstance(response, dict) and 'error' in response
HasErrorKey_never(r) == FALSE
HasErrorKey(r) == r.kind = "error"

NoAnswer == [kind |-> "none", data |-> <<>>]

----------------------------------------------------------------------------
(* Session store *)

EmptySession == [flight_offers |-> <<>>, last_priced_offer |-> None,
                 hotel_offers |-> <<>>, rental_car_offers |-> <<>>]

\* get_session_data: the store with the session of session_id created if absent.
get_session_data_reset(sd, session_id) ==
    [x \in DOMAIN sd \cup {session_id} |->
        IF x = session_id THEN EmptySession ELSE sd[x]]
get_session_data(sd, session_id) ==
    IF session_id \in DOMAIN sd THEN sd
    ELSE [x \in DOMAIN sd \cup {session_id} |->
             IF x = session_id THEN EmptySession ELSE sd[x]]

\* del session_data[session_id], guarded by `if session_id in session_data`
delete_session_all(sd, session_id) == [x \in {} |-> EmptySession]
delete_session_keep(sd, session_id) == sd
delete_session(sd, session_id) ==
    IF session_id \in DOMAIN sd
    THEN [x \in DOMAIN sd \ {session_id} |-> sd[x]]
    ELSE sd

----------------------------------------------------------------------------
(* Messages: the inbound JSON objects, ChatMessage, the message dicts of   *)
(* openai_service.py.  A field is absent, null, a string, an object with a *)
(* "content" key holding a string, or a list of tool calls.                *)

Absent == [kind |-> "absent", v |-> ""]
Null == [kind |-> "null", v |-> ""]
Str(s) == [kind |-> "str", v |-> s]
Dict(s) == [kind |-> "dict", v |-> s]
Calls(s) == [kind |-> "list", v |-> s]
EmptyList == Calls("")

SYSTEM_PROMPT == "You are a helpful and friendly travel assistant for Based Airlines. ..."

\* models.py: ChatMessage; the fields left out take the default None.
ChatMessage(role, content, calls, tool_call_id) ==
    [role |-> role, content |-> content, tool_calls |-> calls,
     tool_call_id |-> tool_call_id]

\* msg["role"] raises KeyError, or ChatMessage(**message_data) a validation
\* error: role is not a string, content (a nested one unwrapped) is neither a
\* string nor null, tool_calls no list, tool_call_id no string.
ConversionRaises(msg) ==
    \/ msg.role.kind # "str"
    \/ msg.content.kind \notin {"absent", "null", "str", "dict"}
    \/ msg.tool_calls.kind \notin {"absent", "null", "list"}
    \/ msg.tool_call_id.kind \notin {"absent", "null", "str"}

\* `msg["content"]["content"]` when content is an object with a content key.
Unwrap_keep(content) == content
Unwrap(content) == IF content.kind = "dict" THEN Str(content.v) ELSE content

\* message_data of one inbound message, made a ChatMessage.
Convert(msg) ==
    ChatMessage(msg.role,
                IF msg.content = Absent THEN Null ELSE Unwrap(msg.content),
                IF msg.tool_calls = Absent THEN Null ELSE msg.tool_calls,
                IF msg.tool_call_id = Absent THEN Null ELSE msg.tool_call_id)

ConvertAll(inbound) == [i \in 1..Len(inbound) |-> Convert(inbound[i])]

\* `[msg for msg in messages if msg.role != "system"]`
IsSystem(msg) == msg.role = Str("system")
StripSystem_leading(msgs) ==
    IF msgs # <<>> /\ IsSystem(Head(msgs)) THEN Tail(msgs) ELSE msgs
StripSystem(msgs) == SelectSeq(msgs, LAMBDA m : ~IsSystem(m))

\* `messages.insert(0, ChatMessage(role="system", content=SYSTEM_PROMPT))`
InsertSystemPrompt(msgs) ==
    <<ChatMessage(Str("system"), Str(SYSTEM_PROMPT), Null, Null)>> \o msgs

\* The messages of chat_request for the inbound list.
RequestMessages(inbound) == InsertSystemPrompt(StripSystem(ConvertAll(inbound)))

\* openai_service.py: message_dict of a ChatMessage.  content is left out when
\* None, tool_calls and tool_call_id when falsy.
Falsy(x) == x \in {Null, Str(""), EmptyList}
message_dict(msg) ==
    [role |-> msg.role,
     content |-> IF msg.content = Null THEN Absent ELSE msg.content,
     tool_calls |-> IF Falsy(msg.tool_calls) THEN Absent ELSE msg.tool_calls,
     tool_call_id |-> IF Falsy(msg.tool_call_id) THEN Absent ELSE msg.tool_call_id]

\* params["messages"] of client.chat.completions.create
ApiMessages(msgs) == [i \in 1..Len(msgs) |-> message_dict(msgs[i])]

----------------------------------------------------------------------------
(* Python list indexing and the ordinal checks of the wrappers *)

PyInRange(list, k) == (0 - Len(list)) <= k /\ k < Len(list)
PyIndex(list, k) == IF k >= 0 THEN list[k + 1] ELSE list[Len(list) + k + 1]

\* `number < 1 or number > len(offers)`
InvalidOrdinal_no_lower(number, offers) == number > Len(offers)
InvalidOrdinal_loose(number, offers) == number < 1 \/ number > Len(offers) + 1
InvalidOrdinal(number, offers) == number < 1 \/ number > Len(offers)

\* `offers[number - 1]`
OfferIndex_n(number) == number
OfferIndex(number) == number - 1

\* `if not offers` / `if not last_priced_offer`
NotList(offers) == offers = <<>>
NotPriced_never(last_priced_offer) == FALSE
NotPriced(last_priced_offer) == ~last_priced_offer.priced

----------------------------------------------------------------------------
(* custom_tools.py: what each provider function makes of the answer of the *)
(* Amadeus SDK call it awaits.  network: the SDK call was made.            *)

Ret(result, network) == [tag |-> "return", result |-> result, network |-> network]
Rse(text, network) == [tag |-> "raise", result |-> Exception(text), network |-> network]

amadeus_search_flights(args, answer) ==
    IF args.shape = "baddate" THEN Rse("ValueError", FALSE)
    ELSE IF answer.kind = "data"
         THEN IF answer.data = <<>>
              THEN Ret(ErrorPayload("No flights found", 0), TRUE)
              ELSE Ret(OfferList(answer.data), TRUE)
    ELSE IF answer.kind = "response_error"
         THEN Ret(ErrorPayload("Unable to search flights", 0), TRUE)
    ELSE Rse("Exception", TRUE)

amadeus_price_flight_offer(flight_offer, answer) ==
    IF answer.kind = "data" THEN Ret(PricingResponse(answer.data[1]), TRUE)
    ELSE IF answer.kind = "error_key" THEN Ret(ErrorPayload("pricing error", 0), TRUE)
    ELSE IF answer.kind = "no_offers"
         THEN Ret([PricingResponse(NoOffer) EXCEPT !.data = <<>>], TRUE)
    ELSE Rse("ResponseError", TRUE)

amadeus_book_flight(priced_offer) ==
    IF priced_offer.priced
    THEN Ret(Confirmation("Flight booking confirmed", priced_offer.id), FALSE)
    ELSE Rse("TypeError", FALSE)

amadeus_search_hotels_by_city(args, answer) ==
    IF answer.kind = "data"
    THEN IF answer.data = <<>>
         THEN Ret(ErrorPayload("No hotel offers available", 0), TRUE)
         ELSE Ret(OfferList(answer.data), TRUE)
    ELSE IF answer.kind = "city_error"
         THEN Ret(ErrorPayload("Unable to find hotels", 0), TRUE)
    ELSE IF answer.kind = "no_hotels"
         THEN Ret(ErrorPayload("No hotels found in city code", 0), TRUE)
    ELSE IF answer.kind = "response_error"
         THEN Ret(ErrorPayload("Unable to search hotels", 0), TRUE)
    ELSE Rse("Exception", TRUE)

amadeus_book_hotel(hotel_offer, answer) ==
    IF answer.kind = "data"
    THEN Ret(Confirmation("Hotel booking confirmed", hotel_offer), TRUE)
    ELSE IF answer.kind = "response_error"
         THEN Ret(Confirmation("Hotel booking confirmed (Test Mode)", hotel_offer), TRUE)
    ELSE Ret(ErrorPayload("Failed to book hotel", 0), TRUE)

amadeus_search_rental_cars(args, answer) ==
    IF answer.kind = "data"
    THEN IF answer.data = <<>>
         THEN Ret(ErrorPayload("No rental cars found", 0), TRUE)
         ELSE Ret(OfferList(answer.data), TRUE)
    ELSE IF answer.kind = "response_error"
         THEN Ret(ErrorPayload("Unable to search for rental cars", 0), TRUE)
    ELSE Rse("Exception", TRUE)

amadeus_book_rental_car(car_offer) ==
    Ret(Confirmation("Rental car booking confirmed (Test Mode)", car_offer), FALSE)

----------------------------------------------------------------------------
(* main.py: the tool wrappers.  Each yields the store it leaves, whether it *)
(* returned or raised and what, whether it indexed its list, whether it     *)
(* called its provider function and with which offer, and whether an SDK    *)
(* call was awaited.  Before the SDK call a wrapper has done no more than   *)
(* get_session_data, so at the await the store is get_session_data(sd, id). *)

Outcome(sd, r, indexed, called, handed) ==
    [sd |-> sd, tag |-> r.tag, result |-> r.result, network |-> r.network,
     indexed |-> indexed, called |-> called, handed |-> handed]

Local(sd, r) == Outcome(sd, r, FALSE, FALSE, NoOffer)

\* The three search wrappers: store the response in the slot unless it is an
\* error payload.
StoreList_append(old, found) == old \o found
StoreList_keep(old, found) == IF old = <<>> THEN found ELSE old
StoreList(old, found) == found

search_flights_resets(sd0, session_id, args, answer) ==
    LET sd == get_session_data(sd0, session_id)
        r  == amadeus_search_flights(args, answer)
    IN  IF r.tag = "raise" \/ HasErrorKey(r.result)
        THEN Outcome(sd, r, FALSE, TRUE, NoOffer)
        ELSE Outcome([sd EXCEPT ![session_id].flight_offers =
                          StoreList(@, r.result.data),
                                ![session_id].last_priced_offer = None],
                     r, FALSE, TRUE, NoOffer)
search_flights(sd0, session_id, args, answer) ==
    LET sd == get_session_data(sd0, session_id)
        r  == amadeus_search_flights(args, answer)
    IN  IF r.tag = "raise" \/ HasErrorKey(r.result)
        THEN Outcome(sd, r, FALSE, TRUE, NoOffer)
        ELSE Outcome([sd EXCEPT ![session_id].flight_offers =
                          StoreList(@, r.result.data)],
                     r, FALSE, TRUE, NoOffer)

price_flight_offer_clears(sd0, session_id, args, answer) ==
    LET sd == get_session_data(sd0, session_id)
        flight_offers == sd[session_id].flight_offers
        flight_number == args.n
    IN  IF NotList(flight_offers)
        THEN Local(sd, Ret(ErrorPayload("No flight search has been performed yet.", 0), FALSE))
        ELSE IF args.shape = "illtyped" THEN Local(sd, Rse("TypeError", FALSE))
        ELSE IF InvalidOrdinal(flight_number, flight_offers)
        THEN Local(sd, Ret(ErrorPayload(
                 "Invalid flight number. Please choose a number between 1 and <length>.",
                 Len(flight_offers)), FALSE))
        ELSE IF ~PyInRange(flight_offers, OfferIndex(flight_number))
        THEN Outcome(sd, Rse("IndexError", FALSE), TRUE, FALSE, NoOffer)
        ELSE LET flight_to_price == PyIndex(flight_offers, OfferIndex(flight_number))
                 r == amadeus_price_flight_offer(flight_to_price, answer)
             IN  IF r.tag = "raise" \/ HasErrorKey(r.result)
                 THEN Outcome([sd EXCEPT ![session_id].last_priced_offer = None],
                              r, TRUE, TRUE, flight_to_price)
                 ELSE IF r.result.data = <<>>
                 THEN Outcome(sd, Rse("KeyError", TRUE), TRUE, TRUE, flight_to_price)
                 ELSE Outcome([sd EXCEPT ![session_id].last_priced_offer =
                                   PricedOffer(r.result.data[1])],
                              r, TRUE, TRUE, flight_to_price)
price_flight_offer(sd0, session_id, args, answer) ==
    LET sd == get_session_data(sd0, session_id)
        flight_offers == sd[session_id].flight_offers
        flight_number == args.n
    IN  IF NotList(flight_offers)
        THEN Local(sd, Ret(ErrorPayload("No flight search has been performed yet.", 0), FALSE))
        ELSE IF args.shape = "illtyped" THEN Local(sd, Rse("TypeError", FALSE))
        ELSE IF InvalidOrdinal(flight_number, flight_offers)
        THEN Local(sd, Ret(ErrorPayload(
                 "Invalid flight number. Please choose a number between 1 and <length>.",
                 Len(flight_offers)), FALSE))
        ELSE IF ~PyInRange(flight_offers, OfferIndex(flight_number))
        THEN Outcome(sd, Rse("IndexError", FALSE), TRUE, FALSE, NoOffer)
        ELSE LET flight_to_price == PyIndex(flight_offers, OfferIndex(flight_number))
                 r == amadeus_price_flight_offer(flight_to_price, answer)
             IN  IF r.tag = "raise" \/ HasErrorKey(r.result)
                 THEN Outcome(sd, r, TRUE, TRUE, flight_to_price)
                 ELSE IF r.result.data = <<>>
                 THEN Outcome(sd, Rse("KeyError", TRUE), TRUE, TRUE, flight_to_price)
                 ELSE Outcome([sd EXCEPT ![session_id].last_priced_offer =
                                   PricedOffer(r.result.data[1])],
                              r, TRUE, TRUE, flight_to_price)

book_flight_consumes(sd0, session_id, args, answer) ==
    LET sd == get_session_data(sd0, session_id)
        last_priced_offer == sd[session_id].last_priced_offer
    IN  IF NotPriced(last_priced_offer)
        THEN Local(sd, Ret(ErrorPayload(
                 "No flight has been priced yet. Please price a flight first.", 0), FALSE))
        ELSE Outcome([sd EXCEPT ![session_id].last_priced_offer = None],
                     amadeus_book_flight(last_priced_offer),
                     FALSE, TRUE, last_priced_offer.id)
book_flight_of_list(sd0, session_id, args, answer) ==
    LET sd == get_session_data(sd0, session_id)
        last_priced_offer == sd[session_id].last_priced_offer
        flight_offers == sd[session_id].flight_offers
    IN  IF NotPriced(last_priced_offer)
           \/ \A i \in 1..Len(flight_offers) : flight_offers[i] # last_priced_offer.id
        THEN Local(sd, Ret(ErrorPayload(
                 "No flight has been priced yet. Please price a flight first.", 0), FALSE))
        ELSE Outcome(sd, amadeus_book_flight(last_priced_offer),
                     FALSE, TRUE, last_priced_offer.id)
book_flight(sd0, session_id, args, answer) ==
    LET sd == get_session_data(sd0, session_id)
        last_priced_offer == sd[session_id].last_priced_offer
    IN  IF NotPriced(last_priced_offer)
        THEN Local(sd, Ret(ErrorPayload(
                 "No flight has been priced yet. Please price a flight first.", 0), FALSE))
        ELSE Outcome(sd, amadeus_book_flight(last_priced_offer),
                     FALSE, TRUE, last_priced_offer.id)

search_hotels_by_city(sd0, session_id, args, answer) ==
    LET sd == get_session_data(sd0, session_id)
        r  == amadeus_search_hotels_by_city(args, answer)
    IN  IF r.tag = "raise" \/ HasErrorKey(r.result)
        THEN Outcome(sd, r, FALSE, TRUE, NoOffer)
        ELSE Outcome([sd EXCEPT ![session_id].hotel_offers =
                          StoreList(@, r.result.data)],
                     r, FALSE, TRUE, NoOffer)

book_hotel(sd0, session_id, args, answer) ==
    LET sd == get_session_data(sd0, session_id)
        hotel_offers == sd[session_id].hotel_offers
        hotel_number == args.n
    IN  IF NotList(hotel_offers)
        THEN Local(sd, Ret(ErrorPayload("No hotel search has been performed yet.", 0), FALSE))
        ELSE IF args.shape = "illtyped" THEN Local(sd, Rse("TypeError", FALSE))
        ELSE IF InvalidOrdinal(hotel_number, hotel_offers)
        THEN Local(sd, Ret(ErrorPayload(
                 "Invalid hotel number. Please choose a number between 1 and <length>.",
                 Len(hotel_offers)), FALSE))
        ELSE IF ~PyInRange(hotel_offers, OfferIndex(hotel_number))
        THEN Outcome(sd, Rse("IndexError", FALSE), TRUE, FALSE, NoOffer)
        ELSE LET hotel_to_book == PyIndex(hotel_offers, OfferIndex(hotel_number))
             IN  Outcome(sd, amadeus_book_hotel(hotel_to_book, answer),
                         TRUE, TRUE, hotel_to_book)

search_rental_cars(sd0, session_id, args, answer) ==
    LET sd == get_session_data(sd0, session_id)
        r  == amadeus_search_rental_cars(args, answer)
    IN  IF r.tag = "raise" \/ HasErrorKey(r.result)
        THEN Outcome(sd, r, FALSE, TRUE, NoOffer)
        ELSE Outcome([sd EXCEPT ![session_id].rental_car_offers =
                          StoreList(@, r.result.data)],
                     r, FALSE, TRUE, NoOffer)

book_rental_car(sd0, session_id, args, answer) ==
    LET sd == get_session_data(sd0, session_id)
        rental_car_offers == sd[session_id].rental_car_offers
        car_number == args.n
    IN  IF NotList(rental_car_offers)
        THEN Local(sd, Ret(ErrorPayload("No rental car search has been performed yet.", 0), FALSE))
        ELSE IF args.shape = "illtyped" THEN Local(sd, Rse("TypeError", FALSE))
        ELSE IF InvalidOrdinal(car_number, rental_car_offers)
        THEN Local(sd, Ret(ErrorPayload(
                 "Invalid car number. Please choose a number between 1 and <length>.",
                 Len(rental_car_offers)), FALSE))
        ELSE IF ~PyInRange(rental_car_offers, OfferIndex(car_number))
        THEN Outcome(sd, Rse("IndexError", FALSE), TRUE, FALSE, NoOffer)
        ELSE LET car_to_book == PyIndex(rental_car_offers, OfferIndex(car_number))
             IN  Outcome(sd, amadeus_book_rental_car(car_to_book),
                         TRUE, TRUE, car_to_book)

FUNCTION_MAP == {"search_flights", "price_flight_offer", "book_flight",
                 "search_hotels_by_city", "book_hotel",
                 "search_rental_cars", "book_rental_car"}

\* FUNCTION_MAP[function_name](session_id, **function_args)
Invoke(function_name, sd, session_id, args, answer) ==
    CASE function_name = "search_flights" -> search_flights(sd, session_id, args, answer)
      [] function_name = "price_flight_offer" -> price_flight_offer(sd, session_id, args, answer)
      [] function_name = "book_flight" -> book_flight(sd, session_id, args, answer)
      [] function_name = "search_hotels_by_city" -> search_hotels_by_city(sd, session_id, args, answer)
      [] function_name = "book_hotel" -> book_hotel(sd, session_id, args, answer)
      [] function_name = "search_rental_cars" -> search_rental_cars(sd, session_id, args, answer)
      [] function_name = "book_rental_car" -> book_rental_car(sd, session_id, args, answer)

----------------------------------------------------------------------------
(* Inputs *)

ToolNames == FUNCTION_MAP \cup {"get_weather"}
OrdinalTools == {"price_flight_offer", "book_hotel", "book_rental_car"}

\* function_args as the LLM wrote them: "badjson" does not parse, "notmapping"
\* parses to a non-mapping, "badkeys" has missing or unexpected keys,
\* "illtyped" carries a string where the ordinal is expected, "baddate" a
\* departure date strptime rejects.  The arguments of a name outside
\* FUNCTION_MAP are parsed and never looked at.
Args(shape, n) == [shape |-> shape, n |-> n]
BadShapes == {"badjson", "notmapping", "badkeys"}
IntentArgs(name) ==
    (IF name \in FUNCTION_MAP THEN {Args(s, 0) : s \in BadShapes}
     ELSE {Args("badjson", 0)})
    \cup (IF name \in OrdinalTools
          THEN {Args("ok", n) : n \in Ordinals} \cup {Args("illtyped", 0)}
          ELSE {Args("ok", 0)})
    \cup (IF name = "search_flights" THEN {Args("baddate", 0)} ELSE {})

\* Answers of the Amadeus SDK call a provider function awaits.
Answer(kind, data) == [kind |-> kind, data |-> data]
Answers(name, handed) ==
    CASE name \in {"search_flights", "search_rental_cars"} ->
             {Answer("data", d) : d \in ProviderLists(name)}
             \cup {Answer("response_error", <<>>), Answer("exception", <<>>)}
      [] name = "search_hotels_by_city" ->
             {Answer("data", d) : d \in ProviderLists(name)}
             \cup {Answer(k, <<>>) : k \in {"city_error", "no_hotels",
                                            "response_error", "exception"}}
      [] name = "price_flight_offer" ->
             {Answer("data", <<handed>>)}
             \cup {Answer(k, <<>>) : k \in {"error_key", "no_offers", "response_error"}}
      [] name = "book_hotel" ->
             {Answer(k, <<>>) : k \in {"data", "response_error", "exception"}}
      [] OTHER -> {}

\* Inbound messages: a system prompt of the client, a user message, an
\* assistant message and a tool message of an earlier turn, a user message with
\* a nested content, an assistant message with an empty tool_calls list, a
\* message without a role, a message whose content is a list.
Json(role, content, calls, tool_call_id) ==
    [role |-> role, content |-> content, tool_calls |-> calls,
     tool_call_id |-> tool_call_id]
ClientSystem == Json(Str("system"), Str("client prompt"), Absent, Absent)
UserMsg == Json(Str("user"), Str("hi"), Absent, Absent)
EarlierAssistant == Json(Str("assistant"), Null, Calls("earlier intents"), Absent)
EarlierTool == Json(Str("tool"), Str("earlier result"), Absent, Str("call_0"))
NestedUser == Json(Str("user"), Dict("nested hi"), Absent, Absent)
EarlierAnswer == Json(Str("assistant"), Str("earlier answer"), EmptyList, Null)
NoRole == Json(Absent, Str("hi"), Absent, Absent)
ContentParts == Json(Str("user"), Calls("content parts"), Absent, Absent)
InboundMessages == {ClientSystem, UserMsg, EarlierAssistant, EarlierTool,
                    NestedUser, EarlierAnswer, NoRole, ContentParts}

\* data_json.get("messages", []): every list of at most MaxMsgs messages, and
\* the two lists the turns of Spec are made with.
InboundLists == UNION {[1..k -> InboundMessages] : k \in 0..MaxMsgs}
PlainLists == {<<ClientSystem, UserMsg>>, <<NoRole>>}

\* What receive_text yields: a disconnect, a text that is no JSON, a JSON
\* object with these messages.
Frame(kind, inbound) ==
    [kind |-> kind, messages |-> inbound, model |-> Absent, temperature |-> Absent]
\* A frame that names its model and its temperature.
FrameWithOptions(inbound) ==
    [kind |-> "text", messages |-> inbound, model |-> Str("gpt-4"),
     temperature |-> Str("0.2")]

\* `model=data_json.get("model", "gpt-3.5-turbo")`,
\* `temperature=data_json.get("temperature", 0.7)`
NoChatRequest == [model |-> "", temperature |-> ""]
ChatRequestParams(frame) ==
    [model |-> IF frame.model = Absent THEN "gpt-3.5-turbo" ELSE frame.model.v,
     temperature |-> IF frame.temperature = Absent THEN "0.7"
                     ELSE frame.temperature.v]
FramesOf(lists) ==
    {Frame("disconnect", <<>>), Frame("badjson", <<>>)}
    \cup {Frame("text", l) : l \in lists}
Frames == FramesOf(PlainLists)
SendOutcomes == {"sent", "disconnect", "error"}
FirstResponses ==
    {[kind |-> k, n |-> 0, content |-> IF k = "content" THEN Str("answer") ELSE Null] :
        k \in {"raise", "content", "null"}}
    \cup {[kind |-> "tool_calls", n |-> n, content |-> Null] : n \in 1..MaxCalls}
\* A first response with one intent and a content beside it.
ContentAndIntent == [kind |-> "tool_calls", n |-> 1, content |-> Str("thinking")]
\* The follow-up call raises, or returns a response dict: a content or a null
\* content, without tool calls or with them.
FollowUpResponses == {"raise", "content", "null", "tool_calls", "content_tool_calls"}

----------------------------------------------------------------------------
(* State *)

NoCall == [id |-> 0, name |-> "", args |-> Args("", 0), status |-> "none",
           tag |-> "none", result |-> NoResult, indexed |-> FALSE,
           called |-> FALSE, handed |-> NoOffer, network |-> FALSE,
           answer |-> NoAnswer]

CallRecord(id, name, args, status, o, answer) ==
    [id |-> id, name |-> name, args |-> args, status |-> status,
     tag |-> IF status = "pending" THEN "none" ELSE o.tag,
     result |-> IF status = "pending" THEN NoResult ELSE o.result,
     indexed |-> o.indexed, called |-> o.called, handed |-> o.handed,
     network |-> o.network, answer |-> answer]

NoReplay == [on |-> FALSE, tag |-> "none", result |-> NoResult, answer |-> NoAnswer]

\* json.dumps(function_response) / json.dumps({"error": str(e)}): of the JSON
\* object the message carries, whether it has an "error" key.
ToolMessage_returns_only(rec) ==
    [role |-> "tool", tool_call_id |-> rec.id, error |-> HasErrorKey(rec.result)]
ToolMessage(rec) ==
    [role |-> "tool", tool_call_id |-> rec.id,
     error |-> (rec.tag = "raise" \/ HasErrorKey(rec.result))]

\* The assistant message of the first response, with its content and its
\* tool calls.
AssistantMessage(content) ==
    ChatMessage(Str("assistant"), content, Calls("intents of the first response"),
                Null)

\* The tool message of a call as the ChatMessage appended for it.
ToolChatMessage(m) ==
    ChatMessage(Str("tool"),
                Str(IF m.error THEN "{\"error\": ...}" ELSE "{...}"),
                Null, Str(ToString(m.tool_call_id)))

\* messages of follow_up_request: the copy of messages, the assistant message
\* and the tool messages appended so far.
FollowUpRequestMessages(msgs, content, appended) ==
    msgs \o <<AssistantMessage(content)>>
         \o [i \in 1..Len(appended) |-> ToolChatMessage(appended[i])]

NoFrame == [type |-> "none", message |-> ""]
AckFrame_none == NoFrame
AckFrame == [type |-> "message_received", message |-> "Processing your request..."]
ChatResponseFrame_no_role(content) ==
    [type |-> "chat_response", message |-> content]
ChatResponseFrame(content) ==
    [type |-> "chat_response", message |-> content, role |-> "assistant"]

\* The content of the response dict the turn ends with.
ApologyText == "I'm sorry, I encountered an error processing your request. <e>"
ContentOf(kind) ==
    CASE kind \in {"content", "content_tool_calls"} -> Str("answer")
      [] kind \in {"null", "tool_calls"} -> Null
      [] kind = "apology" -> Str(ApologyText)

\* `content = response.get("content", "")`, `if content is None: content = ""`
FinalContent_none(content) ==
    IF content = Absent THEN "" ELSE IF content = Null THEN "None" ELSE content.v
FinalContent(content) == IF content \in {Absent, Null} THEN "" ELSE content.v

----------------------------------------------------------------------------
(* custom_tools.py search_flights: the dates sent to the provider *)

\* datetime.date: the Gregorian calendar.
Date(y, m, d) == [y |-> y, m |-> m, d |-> d]
IsLeap(y) == (y % 4 = 0 /\ y % 100 # 0) \/ y % 400 = 0
DaysIn(y, m) ==
    IF m = 2 THEN (IF IsLeap(y) THEN 29 ELSE 28)
    ELSE IF m \in {4, 6, 9, 11} THEN 30 ELSE 31
IsDate(dt) == dt.m \in 1..12 /\ dt.d \in 1..DaysIn(dt.y, dt.m)
\* a < b
Before(a, b) ==
    \/ a.y < b.y
    \/ a.y = b.y /\ a.m < b.m
    \/ a.y = b.y /\ a.m = b.m /\ a.d < b.d

\* date(year, month, day) and date.replace(year=...): the date, or ValueError
\* when the month has no such day.
Moved(dt) == [tag |-> IF IsDate(dt) THEN "return" ELSE "raise", date |-> dt]

\* The roll-forward of one date: `if parsed < today: new = date(today.year,
\* parsed.month, parsed.day); if new < today: new = new.replace(year=
\* today.year + 1)`.
RollForward(parsed, today) ==
    IF ~Before(parsed, today) THEN Moved(parsed)
    ELSE LET new == Date(today.y, parsed.m, parsed.d)
         IN  IF ~IsDate(new) THEN Moved(new)
             ELSE IF Before(new, today) THEN Moved(Date(today.y + 1, new.m, new.d))
             ELSE Moved(new)

\* A return date that is not given.
NoDate == Date(0, 0, 0)

\* params["departureDate"] and params["returnDate"] of the provider call, or
\* the ValueError raised before it.
SearchParams(today, departure_date, return_date) ==
    LET dep == RollForward(departure_date, today)
        ret == IF return_date = NoDate THEN [tag |-> "return", date |-> NoDate]
               ELSE RollForward(return_date, today)
    IN  IF dep.tag = "raise" \/ ret.tag = "raise"
        THEN [status |-> "raised", departureDate |-> NoDate, returnDate |-> NoDate]
        ELSE [status |-> "sent", departureDate |-> dep.date, returnDate |-> ret.date]

NoSearchDates ==
    [today |-> NoDate, departure_date |-> NoDate, return_date |-> NoDate,
     params |-> [status |-> "none", departureDate |-> NoDate, returnDate |-> NoDate]]

\* `session_id = str(id(websocket))`
SessionId_shared(websocket) == "ws1"
SessionId(websocket) == websocket

\* The server after start-up, with the websockets W that will connect.
InitProgram(W) ==
    /\ AVAILABLE_FUNCTIONS = <<"search_flights", "price_flight_offer",
                               "book_flight", "search_hotels_by_city",
                               "book_hotel", "search_rental_cars",
                               "book_rental_car">>
    /\ session_data = [x \in {} |-> EmptySession]
    /\ active_connections = <<>>
    /\ pc = [c \in W |-> "closed"]
    /\ tool_calls = [c \in W |-> 0]
    /\ idx = [c \in W |-> 0]
    /\ follow_up_messages = [c \in W |-> <<>>]
    /\ assistant_content = [c \in W |-> Absent]
    /\ call = [c \in W |-> NoCall]
    /\ response = [c \in W |-> "none"]
    /\ priced_ok = [c \in W |-> FALSE]
    /\ replay = [c \in W |-> NoReplay]
    /\ data_json = [c \in W |-> <<>>]
    /\ chat_request = [c \in W |-> NoChatRequest]
    /\ messages = [c \in W |-> <<>>]
    /\ llm_calls = [c \in W |-> 0]
    /\ sent = [c \in W |-> NoFrame]
    /\ released = [c \in W |-> "none"]

\* No flight search is in progress.
InitOf(W) ==
    /\ search_dates = NoSearchDates
    /\ InitProgram(W)

Init == InitOf(Websockets)

----------------------------------------------------------------------------
(* The ends of the handler *)

\* The locals of the handler and the history of its session are gone.
Forget(c) ==
    /\ tool_calls' = [tool_calls EXCEPT ![c] = 0]
    /\ idx' = [idx EXCEPT ![c] = 0]
    /\ follow_up_messages' = [follow_up_messages EXCEPT ![c] = <<>>]
    /\ assistant_content' = [assistant_content EXCEPT ![c] = Absent]
    /\ response' = [response EXCEPT ![c] = "none"]
    /\ priced_ok' = [priced_ok EXCEPT ![c] = FALSE]
    /\ replay' = [replay EXCEPT ![c] = NoReplay]
    /\ data_json' = [data_json EXCEPT ![c] = <<>>]
    /\ chat_request' = [chat_request EXCEPT ![c] = NoChatRequest]
    /\ messages' = [messages EXCEPT ![c] = <<>>]
    /\ llm_calls' = [llm_calls EXCEPT ![c] = 0]
    /\ sent' = [sent EXCEPT ![c] = NoFrame]
    /\ released' = [released EXCEPT ![c] =
           IF SessionId(c) \in DOMAIN session_data THEN "session" ELSE "nothing"]
    /\ UNCHANGED <<search_dates, AVAILABLE_FUNCTIONS>>

\* except WebSocketDisconnect: manager.disconnect, session deleted.
OnWebSocketDisconnect(c) ==
    /\ active_connections' = SelectSeq(active_connections, LAMBDA w : w # c)
    /\ session_data' = delete_session(session_data, SessionId(c))
    /\ pc' = [pc EXCEPT ![c] = "closed"]
    /\ call' = [call EXCEPT ![c] = NoCall]
    /\ Forget(c)

\* except Exception: session deleted; the websocket stays in active_connections.
OnException(c) ==
    /\ UNCHANGED active_connections
    /\ session_data' = delete_session(session_data, SessionId(c))
    /\ pc' = [pc EXCEPT ![c] = "ended"]
    /\ call' = [call EXCEPT ![c] = NoCall]
    /\ Forget(c)

----------------------------------------------------------------------------
(* The handler, one action per await *)

\* manager.connect: accept, append.
Connect(c) ==
    /\ pc[c] = "closed"
    /\ active_connections' = Append(active_connections, c)
    /\ pc' = [pc EXCEPT ![c] = "receive"]
    /\ released' = [released EXCEPT ![c] = "none"]
    /\ UNCHANGED <<search_dates, AVAILABLE_FUNCTIONS, session_data, tool_calls, idx,
                   follow_up_messages, assistant_content, call, response, priced_ok, replay,
                   data_json, messages, chat_request, llm_calls, sent>>

\* `while True: data = await websocket.receive_text()`: the handler reads a
\* frame at the top of its loop only, after the last statement of the turn
\* before.
ReadsFrame_any(p) == p \notin {"closed", "ended"}
ReadsFrame(p) == p = "receive"

\* receive_text, json.loads, the conversion to ChatMessage, the chat request.
ReceiveText(c, frame) ==
    /\ ReadsFrame(pc[c])
    /\ IF frame.kind = "disconnect" THEN OnWebSocketDisconnect(c)
       ELSE IF frame.kind = "badjson" THEN OnException(c)
       ELSE IF \E i \in 1..Len(frame.messages) : ConversionRaises(frame.messages[i])
       THEN OnException(c)
       ELSE /\ data_json' = [data_json EXCEPT ![c] = frame.messages]
            /\ chat_request' = [chat_request EXCEPT ![c] = ChatRequestParams(frame)]
            /\ messages' = [messages EXCEPT ![c] = RequestMessages(frame.messages)]
            /\ pc' = [pc EXCEPT ![c] = "ack"]
            /\ UNCHANGED <<search_dates, AVAILABLE_FUNCTIONS, session_data, active_connections, tool_calls, idx,
                           follow_up_messages, assistant_content, call, response, priced_ok, replay,
                           llm_calls, sent, released>>

\* send_json of the message_received frame, then the first
\* generate_chat_response is called.
SendAck(c, outcome) ==
    /\ pc[c] = "ack"
    /\ IF outcome = "disconnect" THEN OnWebSocketDisconnect(c)
       ELSE IF outcome = "error" THEN OnException(c)
       ELSE /\ pc' = [pc EXCEPT ![c] = "llm1"]
            /\ sent' = [sent EXCEPT ![c] = AckFrame]
            /\ llm_calls' = [llm_calls EXCEPT ![c] = @ + 1]
            /\ UNCHANGED <<search_dates, AVAILABLE_FUNCTIONS, session_data, active_connections, tool_calls, idx,
                           follow_up_messages, assistant_content, call, response, priced_ok, replay,
                           data_json, messages, chat_request, released>>

\* The first generate_chat_response returns or raises.
LLMFirstResponse(c, r) ==
    /\ pc[c] = "llm1"
    /\ IF r.kind = "raise" THEN OnException(c)
       ELSE IF r.kind = "tool_calls"
       THEN /\ tool_calls' = [tool_calls EXCEPT ![c] = r.n]
            /\ idx' = [idx EXCEPT ![c] = 1]
            /\ follow_up_messages' = [follow_up_messages EXCEPT ![c] = <<>>]
            /\ assistant_content' = [assistant_content EXCEPT ![c] = r.content]
            /\ pc' = [pc EXCEPT ![c] = "tool"]
            /\ UNCHANGED <<search_dates, AVAILABLE_FUNCTIONS, session_data, active_connections, call, response,
                           priced_ok, replay, turn_vars>>
       ELSE /\ response' = [response EXCEPT ![c] = r.kind]
            /\ pc' = [pc EXCEPT ![c] = "send"]
            /\ UNCHANGED <<search_dates, AVAILABLE_FUNCTIONS, session_data, active_connections, tool_calls, idx,
                           follow_up_messages, assistant_content, call, priced_ok, replay, turn_vars>>

\* `except Exception as e` of the loop body catches whatever was raised.
CatchesInLoop_json_only(e) == e.text = "JSONDecodeError"
CatchesInLoop_value_errors(e) == e.text \in {"JSONDecodeError", "TypeError", "ValueError"}
CatchesInLoop(e) == TRUE

\* `if function_name in FUNCTION_MAP`
Registered(function_name) == function_name \in FUNCTION_MAP

\* `FUNCTION_MAP[function_name](session_id, **function_args)`: the call raises
\* TypeError before the body of the wrapper runs when function_args is no
\* mapping or its keys are not the parameters of the wrapper.
BindsArguments_in_body(args) == TRUE
BindsArguments(args) == args.shape \notin {"notmapping", "badkeys"}

\* `follow_up_messages.append(ChatMessage(**tool_message_dict))`
AppendMessage_front(msgs, m) == <<m>> \o msgs
AppendMessage(msgs, m) == Append(msgs, m)

\* The end of one iteration of the loop: the tool message, the next intent or
\* the follow-up request, sent with the second generate_chat_response.
NextIntent(c, rec, sd, appended) ==
    /\ session_data' = sd
    /\ call' = [call EXCEPT ![c] = rec]
    /\ follow_up_messages' = [follow_up_messages EXCEPT ![c] =
           IF appended THEN AppendMessage(@, ToolMessage(rec)) ELSE @]
    /\ llm_calls' = [llm_calls EXCEPT ![c] =
           IF idx[c] < tool_calls[c] THEN @ ELSE @ + 1]
    /\ UNCHANGED <<data_json, messages, sent, released, chat_request,
                   assistant_content>>
    /\ idx' = [idx EXCEPT ![c] = @ + 1]
    /\ pc' = [pc EXCEPT ![c] = IF idx[c] < tool_calls[c] THEN "tool" ELSE "llm2"]
    /\ priced_ok' = [priced_ok EXCEPT ![c] =
           @ \/ (rec.name = "price_flight_offer" /\ rec.tag = "return"
                 /\ ~HasErrorKey(rec.result))]
    /\ UNCHANGED <<search_dates, AVAILABLE_FUNCTIONS, active_connections, tool_calls, response>>

\* An exception the loop body does not catch reaches `except Exception` of
\* the handler.
Propagate(c, rec, sd) ==
    /\ session_data' = delete_session(sd, SessionId(c))
    /\ call' = [call EXCEPT ![c] = rec]
    /\ pc' = [pc EXCEPT ![c] = "ended"]
    /\ tool_calls' = [tool_calls EXCEPT ![c] = 0]
    /\ idx' = [idx EXCEPT ![c] = 0]
    /\ follow_up_messages' = [follow_up_messages EXCEPT ![c] = <<>>]
    /\ assistant_content' = [assistant_content EXCEPT ![c] = Absent]
    /\ priced_ok' = [priced_ok EXCEPT ![c] = FALSE]
    /\ data_json' = [data_json EXCEPT ![c] = <<>>]
    /\ chat_request' = [chat_request EXCEPT ![c] = NoChatRequest]
    /\ messages' = [messages EXCEPT ![c] = <<>>]
    /\ llm_calls' = [llm_calls EXCEPT ![c] = 0]
    /\ sent' = [sent EXCEPT ![c] = NoFrame]
    /\ released' = [released EXCEPT ![c] =
           IF SessionId(c) \in DOMAIN sd THEN "session" ELSE "nothing"]
    /\ UNCHANGED <<search_dates, AVAILABLE_FUNCTIONS, active_connections, response>>

AfterCall(c, rec, sd) ==
    IF rec.tag = "raise"
    THEN IF CatchesInLoop(rec.result)
         THEN NextIntent(c, rec, sd, TRUE)
         ELSE Propagate(c, rec, sd)
    ELSE NextIntent(c, rec, sd, rec.tag = "return")

\* One iteration of `for tool_call in response.get("tool_calls", [])`, up to
\* the SDK call the wrapper awaits, or to its end when it awaits none.
ExecuteToolCall(c, name, args) ==
    /\ pc[c] = "tool"
    /\ LET id == idx[c]
           prev == call[c]
           raised(text) == Local(session_data, Rse(text, FALSE))
           skipped == [Local(session_data, Ret(NoResult, FALSE)) EXCEPT !.tag = "skip"]
           o == Invoke(name, session_data, SessionId(c), args, NoAnswer)
       IN  /\ replay' = [replay EXCEPT ![c] =
                  IF prev.status = "done" /\ prev.name = name /\ prev.args = args
                  THEN [on |-> TRUE, tag |-> prev.tag, result |-> prev.result,
                        answer |-> prev.answer]
                  ELSE NoReplay]
           /\ IF args.shape = "badjson"
              THEN AfterCall(c, CallRecord(id, name, args, "done",
                                           raised("JSONDecodeError"), NoAnswer),
                             session_data)
              ELSE IF ~Registered(name)
              THEN AfterCall(c, CallRecord(id, name, args, "done", skipped, NoAnswer),
                             session_data)
              ELSE IF ~BindsArguments(args)
              THEN AfterCall(c, CallRecord(id, name, args, "done",
                                           raised("TypeError"), NoAnswer),
                             session_data)
              ELSE IF o.network
              THEN /\ session_data' = get_session_data(session_data, SessionId(c))
                   /\ call' = [call EXCEPT ![c] =
                          CallRecord(id, name, args, "pending", o, NoAnswer)]
                   /\ pc' = [pc EXCEPT ![c] = "provider"]
                   /\ UNCHANGED <<search_dates, AVAILABLE_FUNCTIONS, active_connections, tool_calls, idx,
                                  follow_up_messages, assistant_content, response, priced_ok,
                                  turn_vars>>
              ELSE AfterCall(c, CallRecord(id, name, args, "done", o, NoAnswer), o.sd)

\* The SDK call returns or raises; the wrapper runs to its end.
WrapperResumes(c, answer) ==
    /\ pc[c] = "provider"
    /\ LET o == Invoke(call[c].name, session_data, SessionId(c), call[c].args,
                       answer)
       IN  AfterCall(c, CallRecord(call[c].id, call[c].name, call[c].args,
                                   "done", o, answer), o.sd)
    /\ UNCHANGED replay

\* The answers of the SDK call of the pending tool call.
ProviderReturns(c, answer) ==
    /\ pc[c] = "provider"
    /\ answer \in Answers(call[c].name, call[c].handed)
    /\ WrapperResumes(c, answer)

\* After the follow-up response the handler goes on to send the content:
\* response.get("tool_calls") is not read again.
FollowUpNext_loop(r) ==
    IF r \in {"tool_calls", "content_tool_calls"} THEN "tool" ELSE "send"
FollowUpNext_again(r) ==
    IF r \in {"tool_calls", "content_tool_calls"} THEN "llm1" ELSE "send"
FollowUpNext(r) == "send"

\* `except Exception as e` around the follow-up generate_chat_response.
CatchesFollowUp_never(r) == FALSE
CatchesFollowUp(r) == TRUE

\* The follow-up generate_chat_response returns or raises; a raise is caught
\* and replaced by an apology.  Tool calls of this response are not read.
LLMFollowUpResponse(c, r) ==
    /\ pc[c] = "llm2"
    /\ IF r = "raise" /\ ~CatchesFollowUp(r) THEN OnException(c)
       ELSE /\ response' = [response EXCEPT ![c] =
                   IF r = "raise" THEN "apology" ELSE r]
            /\ pc' = [pc EXCEPT ![c] = FollowUpNext(r)]
            /\ tool_calls' = [tool_calls EXCEPT ![c] = 0]
            /\ idx' = [idx EXCEPT ![c] = 0]
            /\ follow_up_messages' = [follow_up_messages EXCEPT ![c] = <<>>]
            /\ assistant_content' = [assistant_content EXCEPT ![c] = Absent]
            /\ call' = [call EXCEPT ![c] = NoCall]
            /\ replay' = [replay EXCEPT ![c] = NoReplay]
            /\ UNCHANGED <<search_dates, AVAILABLE_FUNCTIONS, session_data, active_connections, priced_ok, turn_vars>>

\* send_json of the chat_response frame; then the next receive_text.
SendResponse(c, outcome) ==
    /\ pc[c] = "send"
    /\ IF outcome = "disconnect" THEN OnWebSocketDisconnect(c)
       ELSE IF outcome = "error" THEN OnException(c)
       ELSE /\ pc' = [pc EXCEPT ![c] = "receive"]
            /\ sent' = [sent EXCEPT ![c] =
                   ChatResponseFrame(FinalContent(ContentOf(response[c])))]
            /\ response' = [response EXCEPT ![c] = "none"]
            /\ data_json' = [data_json EXCEPT ![c] = <<>>]
            /\ chat_request' = [chat_request EXCEPT ![c] = NoChatRequest]
            /\ messages' = [messages EXCEPT ![c] = <<>>]
            /\ llm_calls' = [llm_calls EXCEPT ![c] = 0]
            /\ UNCHANGED <<search_dates, AVAILABLE_FUNCTIONS, session_data, active_connections, tool_calls, idx,
                           follow_up_messages, assistant_content, call, priced_ok, replay, released>>

\* The messages of the request the LLM is answering: the chat request after
\* the acknowledgement, the follow-up request after the loop.
LlmRequest(c) ==
    IF pc[c] = "llm1" THEN ApiMessages(messages[c])
    ELSE IF pc[c] = "llm2"
    THEN ApiMessages(FollowUpRequestMessages(messages[c], assistant_content[c],
                                             follow_up_messages[c]))
    ELSE <<>>

\* `response = client.chat.completions.create(**params)`: the call of the
\* synchronous client is made inside the coroutine, neither awaited nor handed
\* to a thread, so the event loop runs no other handler until it returns.  The
\* provider functions hand their SDK calls to asyncio.to_thread and suspend.
BlocksEventLoop(p) == p \in {"llm1", "llm2"}
Scheduled(c) == \A d \in DOMAIN pc \ {c} : ~BlocksEventLoop(pc[d])

\* `tools=AVAILABLE_FUNCTIONS` of the chat request, `tools=chat_request.tools`
\* of the follow-up request, `params["tools"] = chat_request.tools`.
FollowUpRequestTools_none(tools) == <<>>
FollowUpRequestTools(tools) == tools
LlmTools(c) ==
    IF pc[c] = "llm1" THEN AVAILABLE_FUNCTIONS
    ELSE IF pc[c] = "llm2" THEN FollowUpRequestTools(AVAILABLE_FUNCTIONS)
    ELSE <<>>

\* `model=chat_request.model, temperature=chat_request.temperature` of the
\* follow-up request; params["model"], params["temperature"] of the call.
FollowUpParams_default(request) == [model |-> "gpt-3.5-turbo", temperature |-> "0.7"]
FollowUpParams(request) == request
LlmParams(c) ==
    IF pc[c] = "llm1" THEN chat_request[c]
    ELSE IF pc[c] = "llm2" THEN FollowUpParams(chat_request[c])
    ELSE NoChatRequest

AllAnswers == UNION {Answers(name, o) : name \in FUNCTION_MAP, o \in Offers}

Next ==
    \E c \in DOMAIN pc :
      /\ Scheduled(c)
      /\ \/ Connect(c)
         \/ \E frame \in Frames : ReceiveText(c, frame)
         \/ \E outcome \in SendOutcomes : SendAck(c, outcome)
         \/ \E r \in FirstResponses : LLMFirstResponse(c, r)
         \/ \E name \in ToolNames : \E args \in IntentArgs(name) :
                ExecuteToolCall(c, name, args)
         \/ \E answer \in AllAnswers : ProviderReturns(c, answer)
         \/ \E r \in FollowUpResponses : LLMFollowUpResponse(c, r)
         \/ \E outcome \in SendOutcomes : SendResponse(c, outcome)

Spec == Init /\ [][Next]_vars

\* The handler with every inbound list of at most MaxMsgs messages, a first
\* response of at most one intent, for search_flights, and a provider that
\* answers the search with an error.
NextMessages ==
    \E c \in DOMAIN pc :
      /\ Scheduled(c)
      /\ \/ Connect(c)
         \/ /\ pc[c] = "receive"
            /\ \E frame \in FramesOf(InboundLists)
                             \cup {FrameWithOptions(<<UserMsg>>)} :
                  ReceiveText(c, frame)
         \/ \E outcome \in SendOutcomes : SendAck(c, outcome)
         \/ \E r \in {f \in FirstResponses : f.n <= 1} \cup {ContentAndIntent} :
                LLMFirstResponse(c, r)
         \/ \E args \in IntentArgs("search_flights") :
                ExecuteToolCall(c, "search_flights", args)
         \/ ProviderReturns(c, Answer("response_error", <<>>))
         \/ \E r \in FollowUpResponses : LLMFollowUpResponse(c, r)
         \/ \E outcome \in SendOutcomes : SendResponse(c, outcome)

SpecMessages == Init /\ [][NextMessages]_vars

\* Two websockets open at the same time, each with its handler.  The inputs
\* are a user message or a message without a role, a first response with a
\* content or with one intent, a flight search or a pricing of the first
\* offer, a provider that answers with offers or with an error.
TwoWebsockets == {"ws1", "ws2"}
InitTwo == InitOf(TwoWebsockets)

TwoLists == {<<UserMsg>>, <<NoRole>>}
TwoTools == {"search_flights", "price_flight_offer"}
TwoArgs(name) == IF name = "search_flights" THEN Args("ok", 0) ELSE Args("ok", 1)
TwoAnswers ==
    {Answer("data", d) : d \in {Window(1, MaxLen), Window(MaxLen, MaxLen)}}
    \cup {Answer("data", <<o>>) : o \in Offers}
    \cup {Answer("response_error", <<>>)}

NextTwo ==
    \E c \in DOMAIN pc :
      /\ Scheduled(c)
      /\ \/ Connect(c)
         \/ \E frame \in FramesOf(TwoLists) : ReceiveText(c, frame)
         \/ \E outcome \in SendOutcomes : SendAck(c, outcome)
         \/ \E r \in {f \in FirstResponses : f.kind # "null" /\ f.n <= 1} :
                LLMFirstResponse(c, r)
         \/ \E name \in TwoTools : ExecuteToolCall(c, name, TwoArgs(name))
         \/ \E answer \in TwoAnswers : ProviderReturns(c, answer)
         \/ \E r \in {"raise", "content"} : LLMFollowUpResponse(c, r)
         \/ \E outcome \in SendOutcomes : SendResponse(c, outcome)

SpecTwo == InitTwo /\ [][NextTwo]_vars

\* The handler with turns of one user message, a first response of at most
\* one intent, for search_flights, and a provider that answers the search
\* with up to ScenarioOffers offers or fails.
ScenarioOffers == 5
ScenarioAnswers ==
    {Answer("data", Window(1, k)) : k \in 0..ScenarioOffers}
    \cup {Answer("response_error", <<>>), Answer("exception", <<>>)}

NextScenario ==
    \E c \in DOMAIN pc :
      /\ Scheduled(c)
      /\ \/ Connect(c)
         \/ \E frame \in FramesOf({<<UserMsg>>}) : ReceiveText(c, frame)
         \/ \E outcome \in SendOutcomes : SendAck(c, outcome)
         \/ \E r \in {f \in FirstResponses : f.n <= 1} : LLMFirstResponse(c, r)
         \/ \E args \in IntentArgs("search_flights") :
                ExecuteToolCall(c, "search_flights", args)
         \/ \E answer \in ScenarioAnswers : WrapperResumes(c, answer)
         \/ \E r \in FollowUpResponses : LLMFollowUpResponse(c, r)
         \/ \E outcome \in SendOutcomes : SendResponse(c, outcome)

SpecScenario == Init /\ [][NextScenario]_vars

\* The handler with turns of one user message, first responses of up to
\* MaxCalls intents, each a flight search, a pricing of the first offer or a
\* call of a tool that is not registered, under the assumption that every await of a turn, an LLM call,
\* a provider call or a send, returns or raises in the end.
TurnTools == {"search_flights", "price_flight_offer", "get_weather"}
TurnArgs(name) == IF name = "price_flight_offer" THEN Args("ok", 1) ELSE Args("ok", 0)
TurnAnswers ==
    {Answer("data", Window(1, MaxLen)), Answer("data", <<1>>),
     Answer("response_error", <<>>), Answer("exception", <<>>)}

NextTurn ==
    \E c \in DOMAIN pc :
      /\ Scheduled(c)
      /\ \/ Connect(c)
         \/ \E frame \in FramesOf({<<UserMsg>>}) : ReceiveText(c, frame)
         \/ \E outcome \in SendOutcomes : SendAck(c, outcome)
         \/ \E r \in FirstResponses : LLMFirstResponse(c, r)
         \/ \E name \in TurnTools : ExecuteToolCall(c, name, TurnArgs(name))
         \/ \E answer \in TurnAnswers : ProviderReturns(c, answer)
         \/ \E r \in FollowUpResponses : LLMFollowUpResponse(c, r)
         \/ \E outcome \in SendOutcomes : SendResponse(c, outcome)

InTurn(c) == pc[c] \in {"ack", "llm1", "tool", "provider", "llm2", "send"}

SpecTurn ==
    Init /\ [][NextTurn]_vars /\ \A c \in Websockets : WF_vars(InTurn(c) /\ NextTurn)

\* search_flights of custom_tools.py called on a day of the years
\* FirstYear..LastYear with a departure date and, or not, a return date of
\* these years, both dates strptime accepts.
FirstYear == 2023
LastYear == 2025
Dates ==
    {dt \in [y : FirstYear..LastYear, m : {1, 2, 3, 12}, d : {1, 28, 29, 31}] :
        IsDate(dt)}
ReturnDates == {NoDate} \cup {dt \in Dates : dt.m = 2 \/ dt.d = 1}

InitDates ==
    /\ InitProgram(Websockets)
    /\ \E today \in Dates : \E departure_date \in Dates :
       \E return_date \in ReturnDates :
           search_dates = [today |-> today, departure_date |-> departure_date,
                           return_date |-> return_date,
                           params |-> NoSearchDates.params]

SearchFlightsDates ==
    /\ search_dates.today # NoDate
    /\ search_dates.params.status = "none"
    /\ search_dates' = [search_dates EXCEPT !.params =
           SearchParams(search_dates.today, search_dates.departure_date,
                        search_dates.return_date)]
    /\ UNCHANGED <<AVAILABLE_FUNCTIONS, session_data, active_connections, pc,
                   tool_calls, idx, follow_up_messages, assistant_content, call,
                   response, priced_ok, replay, turn_vars>>

NextDates == SearchFlightsDates

SpecDates == InitDates /\ [][NextDates]_vars

----------------------------------------------------------------------------
(* Properties *)

SearchTools == {"search_flights", "search_hotels_by_city", "search_rental_cars"}

\* The session list a tool reads or writes.
ListOf(session, name) ==
    CASE name \in {"search_flights", "price_flight_offer"} -> session.flight_offers
      [] name \in {"search_hotels_by_city", "book_hotel"} -> session.hotel_offers
      [] name \in {"search_rental_cars", "book_rental_car"} -> session.rental_car_offers

InvalidNumberText(name) ==
    CASE name = "price_flight_offer" ->
             "Invalid flight number. Please choose a number between 1 and <length>."
      [] name = "book_hotel" ->
             "Invalid hotel number. Please choose a number between 1 and <length>."
      [] name = "book_rental_car" ->
             "Invalid car number. Please choose a number between 1 and <length>."

NoSearchText(name) ==
    CASE name = "price_flight_offer" -> "No flight search has been performed yet."
      [] name = "book_hotel" -> "No hotel search has been performed yet."
      [] name = "book_rental_car" -> "No rental car search has been performed yet."

\* The call of c was made with well-formed arguments and has run to its end.
DoneOk(c) == call[c].status = "done" /\ call[c].args.shape = "ok"

\* The call of c is an ordinal tool called with an ordinal outside [1, length].
OutOfRange(c) ==
    /\ call[c].status # "none"
    /\ call[c].name \in OrdinalTools
    /\ call[c].args.shape = "ok"
    /\ c \in DOMAIN session_data
    /\ call[c].args.n \notin 1..Len(ListOf(session_data[c], call[c].name))

\* C1: book_flight returns the error payload "No flight has been priced yet"
\* and does not call the booking function whenever no price_flight_offer call
\* has succeeded earlier in the session.
C1_BookFlightNeedsPricing ==
    \A c \in DOMAIN pc :
        (DoneOk(c) /\ call[c].name = "book_flight" /\ ~priced_ok[c])
        => /\ call[c].tag = "return"
           /\ call[c].result = ErrorPayload(
                  "No flight has been priced yet. Please price a flight first.", 0)
           /\ ~call[c].called
           /\ call[c].handed = NoOffer

C1_Witness ==
    \E c \in DOMAIN pc :
        /\ DoneOk(c) /\ call[c].name = "book_flight" /\ ~priced_ok[c]
        /\ HasErrorKey(call[c].result)
        /\ c \in DOMAIN session_data
        /\ session_data[c].flight_offers # <<>>
        /\ session_data[c].hotel_offers # <<>>

\* C2 as stated: for every ordinal outside [1, length], the case length = 0
\* included, the tool returns the error payload "Invalid <noun> number. Please
\* choose a number between 1 and <length>." and does not index the list.
C2_InvalidNumberAlways ==
    \A c \in DOMAIN pc :
        OutOfRange(c)
        => /\ call[c].status = "done"
           /\ call[c].tag = "return"
           /\ call[c].result = ErrorPayload(
                  InvalidNumberText(call[c].name),
                  Len(ListOf(session_data[c], call[c].name)))
           /\ ~call[c].indexed

\* C2 amended: for every ordinal outside [1, length] of a non-empty list the
\* tool returns the error payload "Invalid <noun> number. Please choose a
\* number between 1 and <length>."; when the list is empty it returns the
\* error payload "No <kind> search has been performed yet." instead; in
\* neither case is the list indexed.
C2_InvalidNumberOrNoSearch ==
    \A c \in DOMAIN pc :
        OutOfRange(c)
        => LET offers == ListOf(session_data[c], call[c].name)
           IN  /\ call[c].status = "done"
               /\ call[c].tag = "return"
               /\ call[c].result =
                      IF Len(offers) = 0
                      THEN ErrorPayload(NoSearchText(call[c].name), 0)
                      ELSE ErrorPayload(InvalidNumberText(call[c].name), Len(offers))
               /\ ~call[c].indexed

C2_Witness ==
    \E c \in DOMAIN pc :
        /\ OutOfRange(c)
        /\ call[c].name = "book_hotel"
        /\ Len(session_data[c].hotel_offers) = MaxLen
        /\ call[c].args.n = MaxLen + 1
        /\ call[c].result.length = MaxLen

\* C3: for every ordinal n in [1, length] the provider function is handed the
\* n-th offer of the session's current list (0-based index n - 1).
C3_OrdinalIsOneBased ==
    \A c \in DOMAIN pc :
        (call[c].status # "none" /\ call[c].name \in OrdinalTools
         /\ call[c].called /\ c \in DOMAIN session_data)
        => LET offers == ListOf(session_data[c], call[c].name)
           IN  /\ call[c].args.n \in 1..Len(offers)
               /\ call[c].handed = offers[call[c].args.n]

C3_Witness ==
    \E c \in DOMAIN pc :
        /\ call[c].status = "pending"
        /\ call[c].name = "price_flight_offer"
        /\ call[c].args.n = 2
        /\ Len(session_data[c].flight_offers) = 2
        /\ call[c].handed = session_data[c].flight_offers[2]
        /\ call[c].handed # session_data[c].flight_offers[1]

\* C4: a call with an out-of-range ordinal ends with an error payload and no
\* call to the provider: the provider function is not called and no SDK call
\* is awaited.
C4_OutOfRangeNoProviderCall ==
    \A c \in DOMAIN pc :
        OutOfRange(c)
        => /\ ~call[c].called
           /\ ~call[c].network
           /\ pc[c] # "provider"
           /\ call[c].answer = NoAnswer
           /\ HasErrorKey(call[c].result)

C4_Witness ==
    \E c \in DOMAIN pc :
        /\ OutOfRange(c)
        /\ call[c].name = "price_flight_offer"
        /\ Len(session_data[c].flight_offers) = MaxLen
        /\ call[c].args.n = MaxLen + 1
        /\ ~call[c].called
        /\ call[c].result = ErrorPayload(InvalidNumberText("price_flight_offer"), MaxLen)

C6_ReplayIdempotent ==
    [][\A c \in DOMAIN pc :
          (pc[c] \in {"tool", "provider"} /\ replay'[c].on /\ call'[c] # call[c])
          => /\ (call'[c].status = "done" /\ call'[c].answer = replay'[c].answer)
                => /\ call'[c].tag = replay'[c].tag
                   /\ call'[c].result = replay'[c].result
             /\ (call'[c].status = "pending" \/ call'[c].answer = replay'[c].answer)
                => session_data' = session_data]_vars

C6_Witness ==
    \E c \in DOMAIN pc :
        /\ replay[c].on
        /\ call[c].status = "done" /\ call[c].name = "search_flights"
        /\ call[c].answer = replay[c].answer
        /\ call[c].result = OfferList(<<1, 2>>)
        /\ session_data[c].flight_offers = <<1, 2>>

\* C7 as stated: the follow-up request holds exactly one tool message per
\* intent of the first response, whatever the intent's tool name.
C7_OneToolMessagePerIntent ==
    \A c \in DOMAIN pc :
        pc[c] = "llm2"
        => /\ Len(follow_up_messages[c]) = tool_calls[c]
           /\ \A k \in 1..tool_calls[c] :
                  Cardinality({i \in 1..Len(follow_up_messages[c]) :
                                  follow_up_messages[c][i].tool_call_id = k}) = 1

\* C8 as stated: an intent naming a tool outside FUNCTION_MAP gets a tool
\* message carrying an error.
C8_UnknownToolReported ==
    \A c \in DOMAIN pc :
        (pc[c] \in {"tool", "llm2"} /\ DoneOk(c) /\ call[c].name \notin FUNCTION_MAP)
        => \E i \in 1..Len(follow_up_messages[c]) :
               /\ follow_up_messages[c][i].tool_call_id = call[c].id
               /\ follow_up_messages[c][i].error

\* Arguments that do not parse, or that do not fit the parameters of the
\* registered tool they are for.
BadArguments(rec) ==
    \/ rec.args.shape = "badjson"
    \/ rec.name \in FUNCTION_MAP /\ rec.args.shape \in {"notmapping", "badkeys", "illtyped"}

\* The step ends a tool call of c.
EndsCall(c) ==
    /\ pc[c] \in {"tool", "provider"}
    /\ call'[c].status = "done"
    /\ call'[c] # call[c]

\* C9: a call whose arguments do not parse or do not fit adds one tool message
\* with an error for its intent; the handler goes on to the next intent, or to
\* the follow-up request after the last one, and the connection stays open.
C9_BadArgumentsReported ==
    [][\A c \in DOMAIN pc :
          (EndsCall(c) /\ BadArguments(call'[c]))
          => /\ follow_up_messages'[c] =
                    Append(follow_up_messages[c],
                           [role |-> "tool", tool_call_id |-> idx[c], error |-> TRUE])
             /\ pc'[c] = (IF idx[c] < tool_calls[c] THEN "tool" ELSE "llm2")
             /\ active_connections' = active_connections
             /\ \E i \in 1..Len(active_connections) : active_connections[i] = c]_vars

C9_Witness ==
    \E c \in DOMAIN pc :
        /\ pc[c] = "llm2"
        /\ call[c].status = "done"
        /\ call[c].args.shape = "notmapping"
        /\ call[c].id = 2
        /\ follow_up_messages[c][2] = [role |-> "tool", tool_call_id |-> 2, error |-> TRUE]

\* The function body of a registered tool ran.
HandlerRan(rec) ==
    rec.name \in FUNCTION_MAP /\ rec.args.shape \in {"ok", "illtyped", "baddate"}

\* C10: a tool handler that raises adds one tool message with an error for its
\* intent and ends neither the round nor the handler: the next intent is
\* executed, the follow-up request follows the last intent, the session stays,
\* and the follow-up request is followed by the sending of a response.
C10_HandlerRaiseContained ==
    [][\A c \in DOMAIN pc :
          /\ (EndsCall(c) /\ call'[c].tag = "raise" /\ HandlerRan(call'[c]))
             => /\ follow_up_messages'[c] =
                       Append(follow_up_messages[c],
                              [role |-> "tool", tool_call_id |-> call'[c].id,
                               error |-> TRUE])
                /\ idx'[c] = call'[c].id + 1
                /\ tool_calls'[c] = tool_calls[c]
                /\ pc'[c] = (IF call'[c].id < tool_calls[c] THEN "tool" ELSE "llm2")
                /\ c \in DOMAIN session_data'
          /\ (pc[c] = "llm2" /\ pc'[c] # "llm2")
             => pc'[c] = "send" /\ response'[c] # "none"]_vars

C10_Witness ==
    \E c \in DOMAIN pc :
        /\ pc[c] = "tool"
        /\ call[c].status = "done"
        /\ call[c].name = "price_flight_offer"
        /\ call[c].tag = "raise"
        /\ call[c].network
        /\ idx[c] = call[c].id + 1
        /\ idx[c] <= tool_calls[c]

\* The positions of the tool messages of the round in a request.
RoundToolPositions(request) ==
    {i \in 1..Len(request) :
        /\ request[i].role = Str("tool")
        /\ \E k \in 1..MaxCalls : request[i].tool_call_id = Str(ToString(k))}

\* C11: the calls of a round run one at a time in the order of the intents:
\* call k starts when call k - 1 has run to its end, no call starts while one
\* is pending, the follow-up request is made when the last call has ended, and
\* the tool messages stand in the follow-up request in the order of the
\* intents, after the assistant message.
C11_SequentialInOrder ==
    \A c \in DOMAIN pc :
        /\ pc[c] = "tool"
           => /\ idx[c] \in 1..tool_calls[c]
              /\ idx[c] = 1 => call[c] = NoCall
              /\ idx[c] > 1 => call[c].status = "done" /\ call[c].id = idx[c] - 1
        /\ pc[c] = "provider"
           => call[c].status = "pending" /\ call[c].id = idx[c]
        /\ pc[c] = "llm2"
           => /\ call[c].status = "done" /\ call[c].id = tool_calls[c]
              /\ idx[c] = tool_calls[c] + 1
        /\ \A i, j \in 1..Len(follow_up_messages[c]) :
               i < j => follow_up_messages[c][i].tool_call_id
                            < follow_up_messages[c][j].tool_call_id
        /\ LET request == LlmRequest(c)
           IN  \A i, j \in RoundToolPositions(request) :
                   i < j => \E a, b \in 1..tool_calls[c] :
                               /\ a < b
                               /\ request[i].tool_call_id = Str(ToString(a))
                               /\ request[j].tool_call_id = Str(ToString(b))
                               /\ \E k \in 1..(i - 1) :
                                      request[k].role = Str("assistant")

\* A search and the pricing of an offer it stored, in one round.
C11_Witness ==
    \E c \in DOMAIN pc :
        /\ pc[c] = "llm2"
        /\ tool_calls[c] = 2
        /\ call[c].name = "price_flight_offer" /\ call[c].id = 2
        /\ call[c].tag = "return" /\ ~HasErrorKey(call[c].result)
        /\ Len(follow_up_messages[c]) = 2
        /\ RoundToolPositions(LlmRequest(c)) = {Len(messages[c]) + 2, Len(messages[c]) + 3}
        /\ LlmRequest(c)[Len(messages[c]) + 2].tool_call_id = Str("1")
        /\ LlmRequest(c)[Len(messages[c]) + 3].tool_call_id = Str("2")

\* C12: a turn calls the LLM once when the first response carries no tool
\* calls and twice when it does; after the follow-up response the handler
\* sends its content as it is: no tool call is executed, no further LLM call
\* is made and the session store changes only by the cleanup of a handler
\* that ends.
C12_OneFollowUpOnly ==
    [][\A c \in DOMAIN pc :
          /\ (pc[c] = "llm1" /\ pc'[c] # "llm1")
             => /\ llm_calls[c] = 1
                /\ pc'[c] \in {"send", "tool", "ended"}
                /\ pc'[c] = "send" => llm_calls'[c] = 1 /\ tool_calls'[c] = 0
                /\ pc'[c] = "tool" => llm_calls'[c] = 1 /\ tool_calls'[c] >= 1
          /\ (pc[c] \in {"tool", "provider"} /\ pc'[c] \notin {"tool", "provider"})
             => pc'[c] = "llm2" /\ llm_calls'[c] = 2
          /\ (pc[c] = "llm2" /\ pc'[c] # "llm2")
             => /\ pc'[c] = "send"
                /\ llm_calls'[c] = 2
                /\ session_data' = session_data
                /\ call'[c] = NoCall
          /\ pc[c] = "send"
             => /\ llm_calls[c] \in {1, 2}
                /\ pc'[c] \in {"send", "receive", "closed", "ended"}
                /\ llm_calls'[c] \in {llm_calls[c], 0}
                /\ call'[c] = call[c]
                /\ pc'[c] \in {"send", "receive"} => session_data' = session_data
                /\ (pc'[c] = "receive" /\ llm_calls[c] = 2)
                   => sent'[c] = ChatResponseFrame(
                                     IF response[c] \in {"content", "content_tool_calls"}
                                     THEN "answer"
                                     ELSE IF response[c] = "apology"
                                     THEN ApologyText ELSE "")]_vars

\* The content of a follow-up response that requests tools has been sent; the
\* session holds what the tool round left.
C12_Witness ==
    \E c \in DOMAIN pc :
        /\ pc[c] = "send"
        /\ llm_calls[c] = 2
        /\ response[c] = "content_tool_calls"
        /\ c \in DOMAIN session_data
        /\ session_data[c].flight_offers # <<>>

\* C13: the chat_response frame of a turn carries the content of the last
\* response, the empty string when that content is null; a first response
\* without tool calls goes to the sending of its content with no tool round
\* and no follow-up request.
C13_FinalContentSent ==
    [][\A c \in DOMAIN pc :
          /\ (pc[c] = "send" /\ pc'[c] = "receive")
             => /\ sent'[c].type = "chat_response"
                /\ response[c] \in {"null", "tool_calls"} => sent'[c].message = ""
                /\ response[c] \in {"content", "content_tool_calls"}
                   => sent'[c].message = "answer"
                /\ response[c] = "apology" => sent'[c].message = ApologyText
          /\ (pc[c] = "llm1" /\ response'[c] # response[c] /\ pc'[c] # "ended")
             => /\ response'[c] \in {"content", "null"}
                /\ pc'[c] = "send"
                /\ tool_calls'[c] = 0
                /\ follow_up_messages'[c] = <<>>
                /\ llm_calls'[c] = 1
                /\ session_data' = session_data]_vars

\* A turn whose only response had a null content has sent the empty string.
C13_Witness ==
    \E c \in DOMAIN pc :
        /\ pc[c] = "receive"
        /\ sent[c] = ChatResponseFrame("")
        /\ c \notin DOMAIN session_data

\* C14: every request made to the LLM, the first request and the follow-up
\* request, holds exactly one message of role system; it is the first message
\* and its content is SYSTEM_PROMPT, however many system messages the inbound
\* list held and wherever they stood.
C14_OneSystemMessageFirst ==
    \A c \in DOMAIN pc :
        pc[c] \in {"llm1", "llm2"}
        => LET request == LlmRequest(c)
           IN  /\ Len(request) >= 1
               /\ request[1].role = Str("system")
               /\ request[1].content = Str(SYSTEM_PROMPT)
               /\ {i \in 1..Len(request) : request[i].role = Str("system")} = {1}

\* The follow-up request of a turn whose inbound list held two system messages
\* after a user message.
C14_Witness ==
    \E c \in DOMAIN pc :
        /\ pc[c] = "llm2"
        /\ data_json[c] = <<UserMsg, ClientSystem, ClientSystem>>
        /\ Len(follow_up_messages[c]) = 1
        /\ Len(LlmRequest(c)) = 4
        /\ LlmRequest(c)[2].role = Str("user")

\* The inbound messages that are not system messages, in their order.
NonSystem(inbound) == SelectSeq(inbound, LAMBDA m : m.role # Str("system"))

\* A field without a value: absent, null, an empty list, an empty string.
NoValue(x) == x \in {Absent, Null, EmptyList, Str("")}
SameValue(x, y) == x = y \/ (NoValue(x) /\ NoValue(y))

\* C15 as stated: the non-system messages of the inbound list stand in every
\* request of the turn after the system message, in their order, each with the
\* role, content, tool_calls and tool_call_id it came with (a field without a
\* value counting as unmodified when it is left out).
C15_CarriedUnmodified ==
    \A c \in DOMAIN pc :
        pc[c] \in {"llm1", "llm2"}
        => LET kept == NonSystem(data_json[c])
               request == LlmRequest(c)
           IN  /\ Len(request) >= Len(kept) + 1
               /\ \A i \in 1..Len(kept) :
                      /\ request[i + 1].role = kept[i].role
                      /\ SameValue(request[i + 1].content, kept[i].content)
                      /\ SameValue(request[i + 1].tool_calls, kept[i].tool_calls)
                      /\ SameValue(request[i + 1].tool_call_id, kept[i].tool_call_id)

\* C15 amended: as above, but a content that is an object with its own content
\* field reaches the LLM as that inner content; a content, tool_calls or
\* tool_call_id without a value is left out of the request.
C15_CarriedUnwrapped ==
    \A c \in DOMAIN pc :
        pc[c] \in {"llm1", "llm2"}
        => LET kept == NonSystem(data_json[c])
               request == LlmRequest(c)
           IN  /\ Len(request) >= Len(kept) + 1
               /\ \A i \in 1..Len(kept) :
                      /\ request[i + 1].role = kept[i].role
                      /\ request[i + 1].content =
                             (IF kept[i].content.kind = "dict"
                              THEN Str(kept[i].content.v)
                              ELSE IF NoValue(kept[i].content) /\ kept[i].content # Str("")
                              THEN Absent ELSE kept[i].content)
                      /\ request[i + 1].tool_calls =
                             (IF NoValue(kept[i].tool_calls) THEN Absent
                              ELSE kept[i].tool_calls)
                      /\ request[i + 1].tool_call_id =
                             (IF NoValue(kept[i].tool_call_id) THEN Absent
                              ELSE kept[i].tool_call_id)

\* The follow-up request of a turn whose inbound list held a nested content, a
\* system message and a tool message of an earlier turn.
C15_Witness ==
    \E c \in DOMAIN pc :
        /\ pc[c] = "llm2"
        /\ data_json[c] = <<NestedUser, ClientSystem, EarlierTool>>
        /\ LlmRequest(c)[2].content = Str("nested hi")
        /\ LlmRequest(c)[3].role = Str("tool")
        /\ LlmRequest(c)[3].tool_call_id = Str("call_0")

\* C16: no outcome of the follow-up LLM call ends the handler or touches the
\* session store: the handler goes on to the send with the connection open,
\* and a turn whose follow-up call raised sends a chat_response frame with
\* the synthesized apology, keeps the session and waits for the next frame.
C16_FollowUpFailureContained ==
    [][\A c \in DOMAIN pc :
          /\ (pc[c] = "llm2" /\ pc'[c] # "llm2")
             => /\ pc'[c] = "send"
                /\ response'[c] \in (FollowUpResponses \ {"raise"}) \cup {"apology"}
                /\ session_data' = session_data
                /\ active_connections' = active_connections
                /\ \E i \in 1..Len(active_connections) : active_connections[i] = c
          /\ (pc[c] = "send" /\ response[c] = "apology")
             => /\ llm_calls[c] = 2
                /\ pc'[c] \in {"send", "receive", "closed", "ended"}
                /\ pc'[c] = "receive"
                   => /\ sent'[c] = ChatResponseFrame(ApologyText)
                      /\ session_data' = session_data
                      /\ active_connections' = active_connections]_vars

\* The apology has been sent, the session still holds the offers of the tool
\* round, the handler waits for the next frame.
C16_Witness ==
    \E c \in DOMAIN pc :
        /\ pc[c] = "receive"
        /\ sent[c] = ChatResponseFrame(ApologyText)
        /\ c \in DOMAIN session_data
        /\ session_data[c].flight_offers # <<>>
        /\ \E i \in 1..Len(active_connections) : active_connections[i] = c

\* C17 as stated: no outcome of an LLM call, of the first request or of the
\* follow-up request, ends the handler or removes the session: the handler
\* goes on to a tool round or to the sending of a chat_response.
C17_LLMFailureContained ==
    [][\A c \in DOMAIN pc :
          (pc[c] \in {"llm1", "llm2"} /\ pc'[c] # pc[c])
          => /\ pc'[c] \in {"tool", "send"}
             /\ session_data' = session_data]_vars

\* C18: when the handler of a connection has ended, by a disconnect or by an
\* error, session_data holds no entry for its session id, and get_session_data
\* for that id yields a session with three empty lists and no priced offer.
C18_SessionReleased ==
    \A c \in DOMAIN pc :
        pc[c] \in {"closed", "ended"}
        => /\ c \notin DOMAIN session_data
           /\ get_session_data(session_data, c)[c] =
                  [flight_offers |-> <<>>, last_priced_offer |-> None,
                   hotel_offers |-> <<>>, rental_car_offers |-> <<>>]

\* The handler ended by an error while its session had an entry.
C18_Witness ==
    \E c \in DOMAIN pc :
        /\ pc[c] = "ended"
        /\ released[c] = "session"
        /\ c \notin DOMAIN session_data

\* C19: an entry of session_data is created only by a step of the tool loop
\* that invokes a registered tool with arguments that parse and bind, and
\* every such step leaves an entry; connecting, receiving, the LLM calls, the
\* sends, unknown tool names and unparseable or unbindable arguments create
\* none.
C19_SessionCreatedByToolOnly ==
    [][\A c \in DOMAIN pc :
          /\ (c \notin DOMAIN session_data /\ c \in DOMAIN session_data')
             => /\ pc[c] = "tool"
                /\ call'[c].id = idx[c]
                /\ call'[c].name \in FUNCTION_MAP
                /\ call'[c].args.shape \notin {"badjson", "notmapping", "badkeys"}
          /\ (pc[c] = "tool" /\ call'[c] # call[c]
              /\ call'[c].name \in FUNCTION_MAP
              /\ call'[c].args.shape \notin {"badjson", "notmapping", "badkeys"})
             => c \in DOMAIN session_data']_vars

\* The second intent of a round created the session: the first, which got no
\* tool message, created none.
C19_Witness ==
    \E c \in DOMAIN pc :
        /\ pc[c] = "llm2"
        /\ tool_calls[c] = 2
        /\ call[c].name = "book_flight" /\ call[c].id = 2
        /\ c \in DOMAIN session_data
        /\ session_data[c] = EmptySession
        /\ Len(follow_up_messages[c]) = 1
        /\ follow_up_messages[c][1].tool_call_id = 2

\* C20: get_session_data is idempotent on every store the program reaches: for
\* an id without entry it adds an empty session and leaves the other entries;
\* for an id with an entry it returns the store as it is, offers and priced
\* offer intact; a second call changes nothing.
C20_GetSessionDataIdempotent ==
    \A c \in DOMAIN pc :
        LET once == get_session_data(session_data, c)
        IN  /\ c \in DOMAIN once
            /\ get_session_data(once, c) = once
            /\ c \in DOMAIN session_data => once = session_data
            /\ c \notin DOMAIN session_data
               => /\ once[c].flight_offers = <<>> /\ once[c].hotel_offers = <<>>
                  /\ once[c].rental_car_offers = <<>>
                  /\ once[c].last_priced_offer = None
                  /\ \A x \in DOMAIN session_data : once[x] = session_data[x]
            /\ pc[c] = "provider" => c \in DOMAIN session_data

\* A wrapper has called get_session_data on a session that holds offers and a
\* priced offer, and awaits its provider.
C20_Witness ==
    \E c \in DOMAIN pc :
        /\ pc[c] = "provider"
        /\ call[c].status = "pending"
        /\ c \in DOMAIN session_data
        /\ session_data[c].last_priced_offer = PricedOffer(1)
        /\ session_data[c].flight_offers = <<1, 2>>
        /\ session_data[c].hotel_offers # <<>>

\* C21: the last_priced_offer of a session is unset or the offer a successful
\* price_flight_offer call of that session returned: it is unset when the
\* session is created, and the one step that changes it is the return of a
\* price_flight_offer call of that session without an error, which sets it to
\* the first offer of the pricing response for the offer handed to the
\* provider.
C21_PricedOfferFromPricing ==
    [][\A c \in DOMAIN pc :
          /\ (c \in DOMAIN session_data' /\ c \notin DOMAIN session_data)
             => session_data'[c].last_priced_offer = None
          /\ (/\ c \in DOMAIN session_data' /\ c \in DOMAIN session_data
              /\ session_data'[c].last_priced_offer
                     # session_data[c].last_priced_offer)
             => /\ pc[c] = "provider"
                /\ call[c].name = "price_flight_offer"
                /\ call'[c].name = "price_flight_offer"
                /\ call'[c].status = "done"
                /\ call'[c].tag = "return"
                /\ call'[c].result.kind = "priced"
                /\ call'[c].answer = Answer("data", <<call[c].handed>>)
                /\ session_data'[c].last_priced_offer
                       = PricedOffer(call'[c].result.data[1])
                /\ call[c].handed \in Offers
          /\ (c \in DOMAIN session_data'
              /\ session_data'[c].last_priced_offer # None)
             => priced_ok'[c]]_vars

\* The second call of a round, a price_flight_offer, has returned a pricing
\* and the session holds its offer.
C21_Witness ==
    \E c \in DOMAIN pc :
        /\ call[c].status = "done" /\ call[c].name = "price_flight_offer"
        /\ call[c].tag = "return" /\ call[c].result.kind = "priced"
        /\ c \in DOMAIN session_data
        /\ session_data[c].last_priced_offer = PricedOffer(call[c].handed)
        /\ call[c].handed = MaxLen
        /\ call[c].id = 2
        /\ priced_ok[c]

\* No turn is in progress on c: none of the locals of a turn holds a value.
TurnIdle(c) ==
    /\ call[c] = NoCall /\ llm_calls[c] = 0 /\ tool_calls[c] = 0 /\ idx[c] = 0
    /\ follow_up_messages[c] = <<>> /\ response[c] = "none"
    /\ data_json[c] = <<>> /\ messages[c] = <<>>

\* C22: on one connection at most one turn is in progress: a frame is read,
\* and its turn begun, only when no turn is in progress on that connection,
\* whatever the other connection does; a tool execution begins only when none
\* of the session is pending, and a call is pending exactly while the handler
\* awaits its provider.
C22_OneTurnAtATime ==
    [][\A c \in DOMAIN pc :
          /\ (pc'[c] = "ack" /\ pc[c] # "ack")
             => pc[c] = "receive" /\ TurnIdle(c)
          /\ pc'[c] = "receive" => TurnIdle(c)'
          /\ (call'[c] # call[c] /\ call'[c].status # "none"
              /\ call'[c].id # call[c].id)
             => /\ pc[c] = "tool"
                /\ call[c].status # "pending"
                /\ call'[c].id = idx[c]
          /\ call'[c].status = "pending" <=> pc'[c] = "provider"]_vars

\* Both connections await the provider of a tool call, the first one in a
\* later turn of a session that holds offers.
C22_Witness ==
    /\ DOMAIN pc = TwoWebsockets
    /\ \A c \in DOMAIN pc : pc[c] = "provider" /\ call[c].status = "pending"
    /\ "ws1" \in DOMAIN session_data
    /\ session_data["ws1"].flight_offers # <<>>
    /\ call["ws1"].name = "price_flight_offer"
    /\ call["ws2"].name = "search_flights"

\* The step is one of the handler of c: each of them moves the handler or
\* changes its call.
StepOf(c) == pc'[c] # pc[c] \/ call'[c] # call[c]

\* C23: the sessions of two connections open at the same time are isolated
\* under every interleaving: a step of the handler of one connection, a tool
\* call or the end of the handler with the release of its session, leaves the
\* session of the other connection as it is, its three offer lists and its
\* priced offer, and neither creates nor deletes it.
C23_SessionsIsolated ==
    [][\A c \in DOMAIN pc : \A d \in DOMAIN pc \ {c} :
          StepOf(c)
          => /\ d \in DOMAIN session_data' <=> d \in DOMAIN session_data
             /\ d \in DOMAIN session_data
                => /\ session_data'[d].flight_offers
                          = session_data[d].flight_offers
                   /\ session_data'[d].hotel_offers
                          = session_data[d].hotel_offers
                   /\ session_data'[d].rental_car_offers
                          = session_data[d].rental_car_offers
                   /\ session_data'[d].last_priced_offer
                          = session_data[d].last_priced_offer
             /\ pc'[d] = pc[d] /\ call'[d] = call[d]]_vars

\* One connection has closed and released a session, the other one is open
\* with offers and a priced offer in its session.
C23_Witness ==
    \E c \in DOMAIN pc : \E d \in DOMAIN pc \ {c} :
        /\ pc[c] = "closed" /\ released[c] = "session"
        /\ c \notin DOMAIN session_data
        /\ pc[d] \notin {"closed", "ended"}
        /\ d \in DOMAIN session_data
        /\ session_data[d].flight_offers = Window(1, MaxLen)
        /\ session_data[d].last_priced_offer = PricedOffer(1)

\* The handler of d can read a frame now.
CanReceive(d) ==
    ENABLED (Scheduled(d) /\ \E frame \in FramesOf(TwoLists) : ReceiveText(d, frame))

\* C24: while the turn of one connection waits on an external call, an LLM
\* completion or a call of a tool provider, another connection that is open
\* and waits for a frame can receive it.
C24_IndependentProgress ==
    \A c \in DOMAIN pc : \A d \in DOMAIN pc \ {c} :
        (pc[c] \in {"llm1", "llm2", "provider"} /\ pc[d] = "receive")
        => CanReceive(d)

\* C25: a frame that is no JSON, or whose messages do not convert, ends the
\* handler of its connection and nothing else: from the receive the handler
\* goes to its end with its session released, and the other connection keeps
\* its position, its call, its last frame and its session.
C25_MalformedFrameConfined ==
    [][\A c \in DOMAIN pc :
          (pc[c] = "receive" /\ pc'[c] = "ended")
          => /\ c \notin DOMAIN session_data'
             /\ released'[c] =
                    IF c \in DOMAIN session_data THEN "session" ELSE "nothing"
             /\ active_connections' = active_connections
             /\ \A d \in DOMAIN pc \ {c} :
                   /\ pc'[d] = pc[d] /\ call'[d] = call[d] /\ sent'[d] = sent[d]
                   /\ follow_up_messages'[d] = follow_up_messages[d]
                   /\ d \in DOMAIN session_data' <=> d \in DOMAIN session_data
                   /\ d \in DOMAIN session_data
                      => session_data'[d] = session_data[d]]_vars

\* The handler of one connection has ended and released a session while the
\* other connection, in a turn of its own, awaits a provider with offers in
\* its session.
C25_Witness ==
    \E c \in DOMAIN pc : \E d \in DOMAIN pc \ {c} :
        /\ pc[c] = "ended" /\ released[c] = "session"
        /\ c \notin DOMAIN session_data
        /\ c \in {active_connections[i] : i \in 1..Len(active_connections)}
        /\ pc[d] = "provider"
        /\ d \in DOMAIN session_data
        /\ session_data[d].flight_offers = Window(1, MaxLen)

\* C26: a handler that returns a mapping with an error key and a handler that
\* raises have the same outcome for the orchestrator: one tool message for the
\* intent, with an error key, is appended, the round goes on, and the session
\* is as get_session_data left it, no list and no priced offer written.
C26_ErrorStylesUniform ==
    [][\A c \in DOMAIN pc :
          (/\ EndsCall(c) /\ HandlerRan(call'[c])
           /\ (call'[c].tag = "raise" \/ call'[c].result.kind = "error"))
          => /\ follow_up_messages'[c] =
                    Append(follow_up_messages[c],
                           [role |-> "tool", tool_call_id |-> call'[c].id,
                            error |-> TRUE])
             /\ pc'[c] \in {"tool", "llm2"}
             /\ c \in DOMAIN session_data'
             /\ session_data'[c] = get_session_data(session_data, c)[c]]_vars

\* A provider raised in the second call of a round whose first call has an
\* error message too, in a session that holds offers.
C26_Witness ==
    \E c \in DOMAIN pc :
        /\ call[c].status = "done" /\ call[c].tag = "raise"
        /\ call[c].answer.kind = "exception"
        /\ c \in DOMAIN session_data
        /\ session_data[c].flight_offers # <<>>
        /\ Len(follow_up_messages[c]) = 2
        /\ \A i \in 1..2 : follow_up_messages[c][i].error

\* C27: the tool catalogue is the list of the seven tools in the order of
\* their definition at every moment, and every request to the LLM, the first
\* and the follow-up request of every turn of every connection, carries
\* exactly that list.
C27_ToolCatalogueStable ==
    LET catalogue == <<"search_flights", "price_flight_offer", "book_flight",
                       "search_hotels_by_city", "book_hotel",
                       "search_rental_cars", "book_rental_car">>
    IN  /\ AVAILABLE_FUNCTIONS = catalogue
        /\ \A c \in DOMAIN pc :
              pc[c] \in {"llm1", "llm2"} => LlmTools(c) = catalogue

\* The follow-up request of a later turn of one connection is with the LLM,
\* after a turn of the other connection.
C27_Witness ==
    \E c \in DOMAIN pc : \E d \in DOMAIN pc \ {c} :
        /\ pc[c] = "llm2" /\ Len(LlmTools(c)) = 7
        /\ c \in DOMAIN session_data
        /\ session_data[c].last_priced_offer # None
        /\ call[c].name = "search_flights" /\ call[c].status = "done"
        /\ sent[d].type = "chat_response"
        /\ d \in DOMAIN session_data

\* The five offers of the scenario, in the order the provider returns them.
FiveOffers == <<1, 2, 3, 4, 5>>
HoldsFive(sd, c) == c \in DOMAIN sd /\ sd[c].flight_offers = FiveOffers

\* C28: end to end, in a turn with one user message whose first response has
\* the single intent search_flights: when the provider returns the five
\* offers <<1, 2, 3, 4, 5>>, the session holds exactly these five in this
\* order and the follow-up request is made; when the second response then has
\* a content and no tool calls, the session still holds them and the handler
\* goes on to send; and the frame then sent has the type chat_response, the
\* role assistant and the content of the second response as its message, with
\* the five offers still in the session.
C28_EndToEnd ==
    [][\A c \in DOMAIN pc :
              /\ (/\ pc[c] = "provider" /\ data_json[c] = <<UserMsg>>
                  /\ tool_calls[c] = 1 /\ call[c].name = "search_flights"
                  /\ call'[c].answer = Answer("data", FiveOffers))
                 => /\ pc'[c] = "llm2"
                    /\ HoldsFive(session_data', c)
                    /\ Len(follow_up_messages'[c]) = 1
                    /\ ~follow_up_messages'[c][1].error
              /\ (/\ pc[c] = "llm2" /\ HoldsFive(session_data, c)
                  /\ pc'[c] # "ended" /\ response'[c] = "content")
                 => /\ pc'[c] = "send"
                    /\ HoldsFive(session_data', c)
              /\ (/\ pc[c] = "send" /\ HoldsFive(session_data, c)
                  /\ response[c] = "content" /\ llm_calls[c] = 2
                  /\ pc'[c] = "receive")
                 => /\ HoldsFive(session_data', c)
                    /\ sent'[c] = [type |-> "chat_response",
                                   message |-> "answer",
                                   role |-> "assistant"]]_vars

\* The turn of the scenario has ended: the frame with the content of the
\* second response is sent and the session holds the five offers.
C28_Witness ==
    \E c \in DOMAIN pc :
        /\ pc[c] = "receive"
        /\ sent[c] = ChatResponseFrame("answer")
        /\ sent[c].role = "assistant"
        /\ c \in DOMAIN session_data
        /\ session_data[c].flight_offers = <<1, 2, 3, 4, 5>>

BookingTools == {"book_flight", "book_hotel", "book_rental_car"}

\* C29: a booking tool reads the session and never writes it, whatever its
\* outcome, confirmation, error payload or raise: after each of its steps the
\* store is what get_session_data made of it when the handler ran, and what
\* it was when the arguments kept the handler from running; so the priced
\* offer and the lists are there for a later call.
C29_BookingReadsOnly ==
    [][\A c \in DOMAIN pc :
          (/\ pc[c] \in {"tool", "provider"}
           /\ call'[c] # call[c]
           /\ call'[c].name \in BookingTools)
          => /\ session_data' =
                    IF HandlerRan(call'[c])
                    THEN get_session_data(session_data, c)
                    ELSE session_data
             /\ pc'[c] \in {"tool", "provider", "llm2"}]_vars

\* The second of two equal book_flight calls of a round is confirmed as the
\* first one was, and the session holds its priced offer and its flights.
C29_Witness ==
    \E c \in DOMAIN pc :
        /\ call[c].status = "done" /\ call[c].name = "book_flight"
        /\ call[c].result.kind = "booked"
        /\ replay[c].on /\ replay[c].result = call[c].result
        /\ c \in DOMAIN session_data
        /\ session_data[c].last_priced_offer = PricedOffer(call[c].handed)
        /\ session_data[c].flight_offers # <<>>

\* C30: a search whose provider result is an error payload, no results found
\* or a failure of the provider, returns that payload and leaves the store as
\* it was: the list of the session keeps the offers of the search before, and
\* the round goes on with them.
C30_FailedSearchKeepsList ==
    [][\A c \in DOMAIN pc :
          (/\ EndsCall(c) /\ call'[c].name \in SearchTools
           /\ call'[c].tag = "return" /\ call'[c].result.kind = "error")
          => /\ pc[c] = "provider"
             /\ c \in DOMAIN session_data
             /\ session_data' = session_data
             /\ ListOf(session_data'[c], call'[c].name)
                    = ListOf(session_data[c], call[c].name)
             /\ pc'[c] \in {"tool", "llm2"}]_vars

\* The first of two intents, a flight search, has found nothing, and the
\* session holds the offers of an earlier search for the second intent.
C30_Witness ==
    \E c \in DOMAIN pc :
        /\ pc[c] = "tool" /\ call[c].status = "done" /\ call[c].id = 1
        /\ call[c].name = "search_flights"
        /\ call[c].answer = Answer("data", <<>>)
        /\ call[c].result.kind = "error"
        /\ c \in DOMAIN session_data
        /\ session_data[c].flight_offers = Window(1, MaxLen)

\* The priced offer of the session of c; an absent session has none.
PricedOfferOf(sd, c) == IF c \in DOMAIN sd THEN sd[c].last_priced_offer ELSE None

\* C31: a price_flight_offer call that does not succeed, whether the list is
\* empty, the ordinal out of range, the provider answers with an error payload
\* or raises, leaves last_priced_offer as it was and the handler running, so
\* the offer of an earlier pricing stays the one book_flight reads.
C31_FailedPricingKeepsOffer ==
    [][\A c \in DOMAIN pc :
          (/\ pc[c] \in {"tool", "provider"}
           /\ call'[c] # call[c]
           /\ call'[c].name = "price_flight_offer"
           /\ ~(/\ call'[c].status = "done" /\ call'[c].tag = "return"
                /\ call'[c].result.kind = "priced"))
          => /\ PricedOfferOf(session_data', c) = PricedOfferOf(session_data, c)
             /\ pc'[c] \in {"tool", "provider", "llm2"}]_vars

\* The provider has refused to price the second offer of the list while the
\* session holds the first one, priced earlier.
C31_Witness ==
    \E c \in DOMAIN pc :
        /\ call[c].status = "done" /\ call[c].name = "price_flight_offer"
        /\ call[c].handed = 2
        /\ call[c].answer.kind \in {"error_key", "response_error"}
        /\ c \in DOMAIN session_data
        /\ session_data[c].last_priced_offer = PricedOffer(1)
        /\ priced_ok[c]

\* C32: a successful search_flights replaces flight_offers by the list of the
\* provider and leaves last_priced_offer as it was; book_flight, called with
\* a priced offer in the session, hands that offer to the booking and is
\* confirmed, whatever flight_offers holds now.
C32_SearchKeepsPricedOffer ==
    [][\A c \in DOMAIN pc :
          /\ (/\ EndsCall(c) /\ call'[c].name = "search_flights"
              /\ call'[c].tag = "return" /\ call'[c].result.kind = "offers")
             => /\ c \in DOMAIN session_data /\ c \in DOMAIN session_data'
                /\ session_data'[c].flight_offers = call'[c].answer.data
                /\ session_data'[c].last_priced_offer
                       = session_data[c].last_priced_offer
          /\ (/\ EndsCall(c) /\ call'[c].name = "book_flight"
              /\ call'[c].args.shape = "ok"
              /\ PricedOfferOf(session_data, c) # None)
             => /\ call'[c].tag = "return"
                /\ call'[c].result = Confirmation(
                       "Flight booking confirmed",
                       session_data[c].last_priced_offer.id)
                /\ call'[c].handed = session_data[c].last_priced_offer.id
                /\ session_data'[c] = session_data[c]]_vars

\* book_flight is confirmed for the offer priced from an earlier search while
\* flight_offers, replaced by a later search, does not hold that offer.
C32_Witness ==
    \E c \in DOMAIN pc :
        /\ call[c].status = "done" /\ call[c].name = "book_flight"
        /\ call[c].result.kind = "booked" /\ call[c].handed = 1
        /\ c \in DOMAIN session_data
        /\ session_data[c].last_priced_offer = PricedOffer(1)
        /\ session_data[c].flight_offers = Window(MaxLen, MaxLen)
        /\ \A i \in 1..Len(session_data[c].flight_offers) :
               session_data[c].flight_offers[i] # 1

\* C33: the frames of a connection alternate, one message_received and one
\* chat_response per turn that completes: the message_received frame is sent
\* when the last frame of the connection is none or the chat_response of the
\* turn before, and before the first LLM call of the turn; the chat_response
\* is sent when the last frame is the message_received of the turn, after its
\* one or two LLM calls; no other step sends a frame; and from the first LLM
\* call to the send the last frame is the message_received of the turn.
C33_OneAckOneResponse ==
    [][\A c \in DOMAIN pc :
          /\ (pc[c] = "ack" /\ pc'[c] = "llm1")
             => /\ sent'[c] = [type |-> "message_received",
                               message |-> "Processing your request..."]
                /\ sent[c].type \in {"none", "chat_response"}
                /\ llm_calls[c] = 0 /\ llm_calls'[c] = 1
          /\ (pc[c] = "send" /\ pc'[c] = "receive")
             => /\ sent'[c].type = "chat_response"
                /\ sent[c].type = "message_received"
                /\ llm_calls[c] \in {1, 2} /\ llm_calls'[c] = 0
          /\ (sent'[c] # sent[c] /\ sent'[c].type # "none")
             => \/ pc[c] = "ack" /\ pc'[c] = "llm1"
                \/ pc[c] = "send" /\ pc'[c] = "receive"
          /\ pc'[c] \in {"llm1", "tool", "provider", "llm2", "send"}
             => sent'[c].type = "message_received"
          /\ pc'[c] = "ack" => sent'[c].type \in {"none", "chat_response"}]_vars

\* The message_received frame of a later turn is sent, after the
\* chat_response of a turn that left offers in the session, and the first LLM
\* call of the turn is made.
C33_Witness ==
    \E c \in DOMAIN pc :
        /\ pc[c] = "llm1" /\ llm_calls[c] = 1
        /\ sent[c].type = "message_received"
        /\ c \in DOMAIN session_data
        /\ session_data[c].flight_offers # <<>>

\* C34: the messages of the follow-up request are the messages of the first
\* request, then one assistant message with the content and the tool calls of
\* the first response (a null content being left out), then the tool messages
\* of the round in their order; its model and temperature are the ones of the
\* first request; and from the first request to the follow-up request the
\* message list and the parameters of the first request stay as they were.
C34_FollowUpRequestAssembly ==
    [][\A c \in DOMAIN pc :
          /\ (pc[c] \in {"llm1", "tool", "provider", "llm2"}
              /\ pc'[c] \in {"tool", "provider", "llm2", "send"})
             => /\ messages'[c] = messages[c]
                /\ chat_request'[c] = chat_request[c]
          /\ (pc[c] = "llm1" /\ pc'[c] = "tool")
             => assistant_content'[c] \in {Null, Str("thinking")}
          /\ pc[c] = "llm2"
             => LET request == LlmRequest(c)
                    first == ApiMessages(messages[c])
                    n == Len(first)
                    k == Len(follow_up_messages[c])
                IN  /\ Len(request) = n + 1 + k
                    /\ \A i \in 1..n : request[i] = first[i]
                    /\ request[n + 1].role = Str("assistant")
                    /\ SameValue(request[n + 1].content, assistant_content[c])
                    /\ request[n + 1].tool_calls
                           = Calls("intents of the first response")
                    /\ request[n + 1].tool_call_id = Absent
                    /\ \A i \in 1..k :
                          /\ request[n + 1 + i].role = Str("tool")
                          /\ request[n + 1 + i].tool_call_id =
                                 Str(ToString(follow_up_messages[c][i].tool_call_id))
                    /\ LlmParams(c) = chat_request[c]
                    /\ chat_request[c].model \in {"gpt-3.5-turbo", "gpt-4"}
                    /\ chat_request[c].temperature \in {"0.7", "0.2"}]_vars

\* A follow-up request is with the LLM for a turn that named its model and
\* temperature and whose first response had a content beside its intent.
C34_Witness ==
    \E c \in DOMAIN pc :
        /\ pc[c] = "llm2"
        /\ chat_request[c] = [model |-> "gpt-4", temperature |-> "0.2"]
        /\ LlmParams(c) = chat_request[c]
        /\ assistant_content[c] = Str("thinking")
        /\ Len(follow_up_messages[c]) = 1
        /\ Len(LlmRequest(c)) = 4
        /\ LlmRequest(c)[3].content = Str("thinking")

\* The websockets in active_connections.
Connected == {active_connections[i] : i \in 1..Len(active_connections)}

\* C35: active_connections holds exactly the websockets whose handler is
\* running: each of them once, and none whose handler has not begun or has
\* ended, by a disconnect or by another exception.
C35_ActiveConnectionsExact ==
    /\ \A c \in DOMAIN pc : c \in Connected <=> pc[c] \notin {"closed", "ended"}
    /\ Cardinality(Connected) = Len(active_connections)

\* C36: every turn ends: when each await of the turn returns or raises in the
\* end, a turn begun with a frame comes to the receive after its
\* chat_response or to the end of the handler; and at every moment of it at
\* most two LLM calls have been made and the loop has run at most once for
\* each intent of the first response.
C36_TurnTerminates ==
    /\ \A c \in Websockets :
          (pc[c] = "ack") ~> (pc[c] \in {"receive", "closed", "ended"})
    /\ [](\A c \in Websockets :
             /\ llm_calls[c] <= 2
             /\ idx[c] <= tool_calls[c] + 1
             /\ call[c].id <= tool_calls[c]
             /\ Len(follow_up_messages[c]) <= tool_calls[c]
             /\ pc[c] \in {"closed", "ended"}
                => c \notin DOMAIN session_data)

\* The second LLM call of a turn is made after both intents of the first
\* response have run.
C36_Witness ==
    \E c \in DOMAIN pc :
        /\ pc[c] = "llm2" /\ llm_calls[c] = 2
        /\ tool_calls[c] = MaxCalls /\ idx[c] = MaxCalls + 1
        /\ call[c].id = MaxCalls

\* The date the roll-forward rule names for a date: the date itself when it is
\* today or later, else the same month and day of today's year, or of the next
\* year when that is still before today.
RolledDate(dt, today) ==
    IF ~Before(dt, today) THEN dt
    ELSE IF ~Before(Date(today.y, dt.m, dt.d), today)
         THEN Date(today.y, dt.m, dt.d)
         ELSE Date(today.y + 1, dt.m, dt.d)

\* C37: search_flights never sends the provider a departure date earlier than
\* today: every search sends the provider the departure date the roll-forward
\* rule names (the date itself when it is today or later, else the same month
\* and day of the current year, or of the next year when that is still before
\* today), which is a date of the calendar not before today, and, for a given
\* return date, the return date the same rule names for it.
C37_DatesNotBeforeToday ==
    search_dates.params.status # "none" =>
        LET today == search_dates.today
            params == search_dates.params
        IN  /\ params.status = "sent"
            /\ params.departureDate = RolledDate(search_dates.departure_date, today)
            /\ IsDate(params.departureDate)
            /\ ~Before(params.departureDate, today)
            /\ search_dates.return_date # NoDate =>
                  /\ params.returnDate = RolledDate(search_dates.return_date, today)
                  /\ IsDate(params.returnDate)
                  /\ ~Before(params.returnDate, today)

====
